---- MODULE Spec2Model ----
(***************************************************************************)
(* Verification model of the chat-canvas-template resilience layer:        *)
(*   - LLMGateway (agent-js/src/services/llmGateway.ts): provider list,    *)
(*     health table, generateResponse with sequential failover;            *)
(*   - ConversationManager (services/conversationManager.ts): checkpoint   *)
(*     writes, retention cleanup, recovery;                                *)
(*   - chat_node (agent-js/src/chat.ts) and executeWorkflowWithRecovery    *)
(*     (agent.ts): the per-turn sequence and its catch paths.              *)
(***************************************************************************)
EXTENDS Integers, Sequences, FiniteSets, TLC

(***************************************************************************)
(* Bounds of the model                                                     *)
(***************************************************************************)
MaxInFlight == 2
MaxStarts == 3
MaxTicks == 2
MaxSavers == 2
MaxSaves == 11
MaxIncidents == 1
MaxTurns == 2
MaxTurnSaves == 1
MaxRecoveries == 2
MaxRecoverySaves == 2
MaxHistory == 11
MaxCacheSets == 2
MaxCacheGets == 2
MaxCacheTicks == 2
MaxContentLen == 3
MaxFragments == 3
MaxPieces == 4
MaxRecords == 2
MaxResolves == 1
MaxMetricTicks == 1
MaxMessages == 4
MaxRecorders == 2
MaxPasses == 3
MaxDownloadTicks == 2
MaxDepth == 12
MaxGetModels == 2
MaxFlagTicks == 1

(***************************************************************************)
(* Program constants                                                       *)
(***************************************************************************)
HEALTH_CHECK_INTERVAL == 300000
CHECKPOINT_TTL == 3600
MAX_CHECKPOINTS == 10
CONTEXT_WINDOW == 10
RECOVERY_LOG_STOP == 99
DEFAULT_TTL == 3600
SEARCH_FRESH_MS == 3600000
LLM_TTL == 86400
LLM_FRESH_MS == 86400000
RESOURCE_TTL == 21600
RESOURCE_FRESH_MS == 21600000
MAX_INPUT_LENGTH == 10000
MAX_TOKENS == 28000
OVERLAP_TOKENS == 500
HOUR_MS == 3600000
SLOW_RESPONSE == 10000
TOKEN_LIMIT == 25000
COST_THRESHOLD == 50
ALERT_TTL == 86400
ALERT_LIST_STOP == 99
CACHE_TTL == 300
lastCacheUpdate == 0

VARIABLES
    providers,        \* LLMGateway.providers: sequence of provider descriptors
    healthStatus,     \* LLMGateway.healthStatus: key -> BOOLEAN
    lastHealthCheck,  \* LLMGateway.lastHealthCheck: key -> time of last failure
    now,              \* Date.now()
    ticks,            \* number of clock advances so far
    inv,              \* generateResponse invocations: slot -> activation record
    failedAt,         \* history: key -> time of the provider's last failure (0: never)
    okSinceFail,      \* history: key -> a call succeeded after the last failure
    failover,         \* history: key -> the provider's last failure was made good
                      \*          by the next provider in the same invocation
    started,          \* history: number of generateResponse calls so far
    redis,            \* the shared key-value store: key -> [value, expireAt]
    redisUp,          \* the store is reachable
    outages,          \* number of store outages so far
    isOpen,           \* ConversationManager.redis.isOpen
    save,             \* saveCheckpoint activations: slot -> activation record
    revision,         \* thread -> number of saveCheckpoint calls so far (the
                      \*           revision of the conversation state passed)
    faulty,           \* history: thread -> a store operation of one of its
                      \*          saveCheckpoint calls has failed
    turn,             \* the turn being processed (chat_node or
                      \* executeWorkflowWithRecovery activation)
    turns,            \* number of turns started so far
    recover,          \* the recoverFromError activation
    recoveryLogs,     \* the list stored under 'recovery_logs', newest first
    recoveries,       \* number of recoverFromError calls so far
    cacheOp,          \* the cache read in progress
    cacheSet,         \* the cache write whose SETEX is on its way to the store
    cacheOpen,        \* component -> CacheManager.redis.isOpen of its instance
    cacheOps,         \* number of cache writes and of cache reads so far
    cacheTicks,       \* number of clock advances between cache operations
    lastSet,          \* history: cache key -> the entry of the last SETEX that
                      \*          the store executed for the key
    evicted,          \* history: the cache keys that a DEL of a read has
                      \*          removed since their last SETEX
    call,             \* the call of a function of the cache keys or of the
                      \* safety filter: its name, its arguments and, once it
                      \* has returned, its result
    templateLastIndex, \* SafetyFilter.INJECTION_PATTERNS[6].lastIndex
    alertsActive,     \* the list stored under 'alerts:active', newest first
    hourly,           \* the hashes `metrics:hour:${hour}`: hour -> totals
    record,           \* the recordRequest activation
    resolve,          \* the resolveAlert activation
    resolvedIds,      \* history: the ids for which resolveAlert returned true
    metricOps,        \* number of recordings, of resolveAlert calls and of
                      \* clock advances of the metrics collector so far
    recorders,        \* recordRequest activations that run side by side:
                      \* slot -> activation record
    RESOURCE_CACHE,   \* download.ts RESOURCE_CACHE: url -> content
    download,         \* the download_node / downloadResource activation
    downloads,        \* number of download_node calls and of clock advances
                      \* between them so far
    flags             \* model.ts featureFlags and the getModel activation
                      \* that is inside its methods

gwHist == <<failedAt, okSinceFail, failover, started>>

gwVars == <<providers, healthStatus, lastHealthCheck, inv, gwHist>>

ckVars == <<redis, redisUp, outages, isOpen, save, revision, faulty>>

turnVars == <<turn, turns>>

recVars == <<recover, recoveryLogs, recoveries>>

cacheVars == <<cacheOp, cacheSet, cacheOpen, cacheOps, cacheTicks, lastSet, evicted>>

filterVars == <<call, templateLastIndex>>

flagVars == <<flags>>

downloadVars == <<RESOURCE_CACHE, download, downloads>>

metricVars == <<alertsActive, hourly, record, resolve, resolvedIds, metricOps, recorders>>

moreVars == <<recVars, cacheVars, filterVars, metricVars, downloadVars, flagVars>>

vars == <<providers, healthStatus, lastHealthCheck, now, ticks, inv, gwHist,
          ckVars, turnVars, moreVars>>

(***************************************************************************)
(* LLMGateway: provider descriptors                                        *)
(***************************************************************************)
EnvKeys == {"OPENAI_API_KEY", "ANTHROPIC_API_KEY", "GOOGLE_API_KEY"}

\* The descriptors in the order initializeProviders pushes them.
ProviderTable ==
    << [name |-> "openai",    model |-> "gpt-4o",                     priority |-> 1, env |-> "OPENAI_API_KEY"],
       [name |-> "openai",    model |-> "gpt-3.5-turbo",              priority |-> 3, env |-> "OPENAI_API_KEY"],
       [name |-> "anthropic", model |-> "claude-3-5-sonnet-20240620", priority |-> 2, env |-> "ANTHROPIC_API_KEY"],
       [name |-> "google",    model |-> "gemini-1.5-pro",             priority |-> 4, env |-> "GOOGLE_API_KEY"] >>

\* `${provider.name}-${provider.model}`
Key(p) == <<p.name, p.model>>

AllKeys == { Key(ProviderTable[k]) : k \in 1..Len(ProviderTable) }

RECURSIVE InsertByPriority(_, _)
InsertByPriority(p, s) ==
    IF s = <<>> THEN <<p>>
    ELSE IF p.priority < Head(s).priority THEN <<p>> \o s
    ELSE <<Head(s)>> \o InsertByPriority(p, Tail(s))

\* Array.prototype.sort((a, b) => a.priority - b.priority): stable, ascending.
RECURSIVE SortByPriority(_)
SortByPriority(s) ==
    IF s = <<>> THEN <<>>
    ELSE InsertByPriority(s[Len(s)], SortByPriority(SubSeq(s, 1, Len(s) - 1)))

\* initializeProviders: push the descriptors whose API key is set, sort them.
initializeProviders(env) ==
    SortByPriority(SelectSeq(ProviderTable, LAMBDA p : p.env \in env))

Range(s) == { s[k] : k \in 1..Len(s) }

ConfiguredKeys == { Key(p) : p \in Range(providers) }

PriorityOf(key) == (CHOOSE p \in Range(ProviderTable) : Key(p) = key).priority

(***************************************************************************)
(* LLMGateway.getAvailableProviders                                        *)
(***************************************************************************)
CooldownElapsed_Inclusive(lastCheck, t) == (t - lastCheck) >= HEALTH_CHECK_INTERVAL

\* (now - lastCheck) > this.HEALTH_CHECK_INTERVAL
CooldownElapsed(lastCheck, t) == (t - lastCheck) > HEALTH_CHECK_INTERVAL

\* if (!isHealthy && (now - lastCheck) > this.HEALTH_CHECK_INTERVAL)
ReEnabled(isHealthy, lastCheck, t) == ~isHealthy /\ CooldownElapsed(lastCheck, t)

IsAvailable_IgnoreHealth(isHealthy, lastCheck, t) == TRUE

\* the filter callback: re-enabled providers pass, the others pass iff healthy
IsAvailable(isHealthy, lastCheck, t) ==
    IF ReEnabled(isHealthy, lastCheck, t) THEN TRUE ELSE isHealthy

\* The filtered list (keys, in this.providers order) and the health table
\* after the re-enabling writes of the filter callback.
getAvailableProviders(t) ==
    [ list   |-> [ k \in 1..Len(SelectSeq(providers, LAMBDA p :
                         IsAvailable(healthStatus[Key(p)], lastHealthCheck[Key(p)], t)))
                   |-> Key(SelectSeq(providers, LAMBDA p :
                         IsAvailable(healthStatus[Key(p)], lastHealthCheck[Key(p)], t))[k]) ],
      health |-> [ k \in DOMAIN healthStatus |->
                     IF ReEnabled(healthStatus[k], lastHealthCheck[k], t)
                     THEN TRUE ELSE healthStatus[k] ] ]

(***************************************************************************)
(* LLMGateway.generateResponse                                             *)
(***************************************************************************)
Inv == 1..MaxInFlight

NoResponse == [content |-> "none", provider |-> "none", model |-> "none"]

IdleInvocation ==
    [ pc |-> "idle", sortedProviders |-> <<>>, idx |-> 0, attempts |-> <<>>,
      outcome |-> "none", response |-> NoResponse, failT |-> 0 ]

\* the LLMResponse built from a provider's answer (lines 128-135)
ResponseOf(key) == [content |-> <<"answer of", key>>, provider |-> key[1], model |-> key[2]]

ExhaustedResult_Partial(rec) ==
    IF rec.attempts = <<>>
    THEN [outcome |-> "error", response |-> NoResponse]
    ELSE [outcome |-> "response",
          response |-> ResponseOf(rec.attempts[Len(rec.attempts)].key)]

\* throw new Error('All LLM providers failed')
ExhaustedResult(rec) == [outcome |-> "error", response |-> NoResponse]

OnProviderFailure_NoMark(key, t) ==
    [health |-> healthStatus, last |-> lastHealthCheck]

\* catch block of the loop: mark unhealthy, remember the failure time
OnProviderFailure(key, t) ==
    [health |-> [healthStatus EXCEPT ![key] = FALSE],
     last   |-> [lastHealthCheck EXCEPT ![key] = t]]

\* this.healthStatus.set(key, true) after a successful call
OnProviderSuccess(key) == [healthStatus EXCEPT ![key] = TRUE]

HasNext_StopAfterFirst(rec) == rec.idx < Len(rec.sortedProviders) /\ rec.idx = 0

\* for (const provider of sortedProviders): is there another element?
HasNext(rec) == rec.idx < Len(rec.sortedProviders)

\* loop body up to `await this.callProvider(...)`: the call to the next
\* provider of the list is started
StartCall(rec) ==
    [rec EXCEPT !.pc = "calling",
                !.idx = rec.idx + 1,
                !.attempts = Append(rec.attempts,
                    [key |-> rec.sortedProviders[rec.idx + 1], res |-> "pending"])]

\* the loop is over without a return: the throw after the loop
Exhaust(rec) ==
    [rec EXCEPT !.pc = "done",
                !.outcome = ExhaustedResult(rec).outcome,
                !.response = ExhaustedResult(rec).response]

CurrentKey(rec) == rec.attempts[Len(rec.attempts)].key

Settle(rec, res) == [rec EXCEPT !.attempts[Len(rec.attempts)].res = res]

\* the provider has failed, and at time t more than the cooldown has passed
\* since its last failure
FailedLongAgo(key, t) ==
    failedAt[key] # 0 /\ (t - failedAt[key]) > HEALTH_CHECK_INTERVAL

\* the provider has failed, and at time t its cooldown window is still open
FailedRecently(key, t) ==
    failedAt[key] # 0 /\ (t - failedAt[key]) <= HEALTH_CHECK_INTERVAL

\* generateResponse is called: getAvailableProviders, then the first
\* iteration up to its await (or the throw when the list is empty)
StartInvocation(i) ==
    /\ inv[i].pc = "idle"
    /\ \A j \in Inv : j < i => inv[j].pc # "idle"
    /\ started < MaxStarts
    /\ LET avail == getAvailableProviders(now)
           rec0  == [inv[i] EXCEPT !.sortedProviders = avail.list]
       IN /\ healthStatus' = avail.health
          /\ inv' = [inv EXCEPT ![i] = IF HasNext(rec0) THEN StartCall(rec0)
                                                        ELSE Exhaust(rec0)]
    /\ started' = started + 1
    /\ UNCHANGED <<providers, lastHealthCheck, now, ticks, failedAt, okSinceFail, failover>>
    /\ UNCHANGED <<ckVars, turnVars, moreVars>>

\* the awaited provider call resolves: mark healthy, return the response
ProviderReturns(i) ==
    /\ inv[i].pc = "calling"
    /\ LET rec == Settle(inv[i], "ok")
           n   == Len(rec.attempts)
       IN /\ healthStatus' = OnProviderSuccess(CurrentKey(rec))
          /\ inv' = [inv EXCEPT ![i] = [rec EXCEPT !.pc = "done",
                                                   !.outcome = "response",
                                                   !.response = ResponseOf(CurrentKey(rec))]]
          /\ okSinceFail' = [okSinceFail EXCEPT ![CurrentKey(rec)] = TRUE]
          /\ failover' = IF n >= 2 /\ failedAt[rec.attempts[n - 1].key] = rec.failT
                         THEN [failover EXCEPT ![rec.attempts[n - 1].key] = TRUE]
                         ELSE failover
    /\ UNCHANGED <<providers, lastHealthCheck, now, ticks, failedAt, started>>
    /\ UNCHANGED <<ckVars, turnVars, moreVars>>

\* the awaited provider call rejects: catch block, then the next iteration
ProviderThrows(i) ==
    /\ inv[i].pc = "calling"
    /\ LET rec == [Settle(inv[i], "threw") EXCEPT !.failT = now]
           upd == OnProviderFailure(CurrentKey(rec), now)
       IN /\ healthStatus' = upd.health
          /\ lastHealthCheck' = upd.last
          /\ inv' = [inv EXCEPT ![i] = IF HasNext(rec) THEN StartCall(rec)
                                                       ELSE Exhaust(rec)]
          /\ failedAt' = [failedAt EXCEPT ![CurrentKey(rec)] = now]
          /\ okSinceFail' = [okSinceFail EXCEPT ![CurrentKey(rec)] = FALSE]
          /\ failover' = [failover EXCEPT ![CurrentKey(rec)] = FALSE]
    /\ UNCHANGED <<providers, now, ticks, started>>
    /\ UNCHANGED <<ckVars, turnVars, moreVars>>

\* the caller has consumed the settled promise: the activation is gone
Complete(i) ==
    /\ inv[i].pc = "done"
    /\ inv' = [inv EXCEPT ![i] = IdleInvocation]
    /\ UNCHANGED <<providers, healthStatus, lastHealthCheck, now, ticks, gwHist>>
    /\ UNCHANGED <<ckVars, turnVars, moreVars>>

TickSteps == {1, HEALTH_CHECK_INTERVAL}

\* wall-clock time passes
Tick(d) ==
    /\ ticks < MaxTicks
    /\ now' = now + d
    /\ ticks' = ticks + 1
    /\ UNCHANGED <<providers, healthStatus, lastHealthCheck, inv, gwHist>>
    /\ UNCHANGED <<ckVars, turnVars, moreVars>>

(***************************************************************************)
(* The shared key-value store (Redis) as ConversationManager uses it.      *)
(* A key is the tuple of its ':'-separated fields; thread identifiers are  *)
(* tokens without ':' (UUIDs, `thread-${Date.now()}`).                     *)
(***************************************************************************)
Threads == {"t1", "t2"}

NoThread == "none"

EmptyStore == [k \in {} |-> [value |-> 0, expireAt |-> 0]]

\* entries whose time to live has not run out at time t
Live(store, t) ==
    [k \in { j \in DOMAIN store : store[j].expireAt > t } |-> store[k]]

\* SETEX key seconds value, issued at time t
setEx(store, key, seconds, value, t) ==
    [k \in (DOMAIN store) \cup {key} |->
        IF k = key THEN [value |-> value, expireAt |-> t + seconds * 1000]
                   ELSE store[k]]

\* DEL key [key ...]
del(store, ks) == [k \in (DOMAIN store) \ ks |-> store[k]]

\* `checkpoint:${threadId}:${Date.now()}`
checkpointKey(threadId, t) == <<"checkpoint", threadId, t>>

\* `latest:${threadId}`
latestKey(threadId) == <<"latest", threadId>>

\* `checkpoint:${threadId}:*` : the fields before the trailing wildcard
pattern(threadId) == <<"checkpoint", threadId>>

\* KEYS pattern
keys(store, pat) ==
    { k \in DOMAIN store : Len(k) > Len(pat) /\ SubSeq(k, 1, Len(pat)) = pat }

\* parseInt(key.split(':')[2])
timestampOf(key) == key[3]

\* comparator of the sort in cleanupOldCheckpoints: timestampB - timestampA
\* is negative, i.e. a goes first, when a is the newer key
Before_Ascending(a, b) == timestampOf(a) < timestampOf(b)

Before(a, b) == timestampOf(a) > timestampOf(b)

RECURSIVE sortedKeys(_)
sortedKeys(ks) ==
    IF ks = {} THEN <<>>
    ELSE LET first == CHOOSE k \in ks : \A j \in ks \ {k} : Before(k, j)
         IN <<first>> \o sortedKeys(ks \ {first})

\* sortedKeys.slice(this.MAX_CHECKPOINTS)
keysToDelete(ks) ==
    LET sorted == sortedKeys(ks)
    IN { sorted[n] : n \in (MAX_CHECKPOINTS + 1)..Len(sorted) }

\* getLastCheckpoint: follow the latest pointer to the checkpoint it names;
\* the result is <<checkpoint>>, or <<>> for null
getLastCheckpoint(threadId) ==
    IF ~redisUp THEN <<>>
    ELSE IF latestKey(threadId) \notin DOMAIN redis THEN <<>>
    ELSE IF redis[latestKey(threadId)].value \notin DOMAIN redis THEN <<>>
    ELSE <<redis[redis[latestKey(threadId)].value].value>>

\* Array.prototype.slice(-n): the last n elements, all of them if fewer
sliceLast(list, n) ==
    IF Len(list) <= n THEN list ELSE SubSeq(list, Len(list) - n + 1, Len(list))

\* `state.messages?.slice(-10) || []`
contextOf(state) ==
    IF "messages" \in DOMAIN state THEN sliceLast(state.messages, CONTEXT_WINDOW)
                                   ELSE <<>>

(***************************************************************************)
(* ConversationManager.saveCheckpoint.  One action per awaited store       *)
(* command; a command that fails throws into the enclosing catch block,    *)
(* which logs and returns.                                                 *)
(***************************************************************************)
Savers == 1..MaxSavers

IdleSave == [pc |-> "idle", threadId |-> NoThread, checkpointKey |-> <<>>, keys |-> {}]

\* saveCheckpoint(threadId, state) up to the first SETEX: initialize(),
\* the checkpoint object, the key, the write of the checkpoint
SaveCheckpointCall(s, threadId, state) ==
    /\ save[s].pc = "idle"
    /\ \A j \in Savers : j < s => save[j].pc # "idle"
    /\ revision[threadId] < MaxSaves
    /\ revision' = [revision EXCEPT ![threadId] = @ + 1]
    /\ IF redisUp
       THEN LET key   == checkpointKey(threadId, now)
                value == [state |-> state, context |-> contextOf(state),
                          timestamp |-> now]
            IN /\ isOpen' = TRUE
               /\ redis' = setEx(redis, key, CHECKPOINT_TTL, value, now)
               /\ save' = [save EXCEPT ![s] = [pc |-> "latest", threadId |-> threadId,
                                               checkpointKey |-> key, keys |-> {}]]
               /\ UNCHANGED faulty
       ELSE /\ faulty' = [faulty EXCEPT ![threadId] = TRUE]
            /\ UNCHANGED <<redis, isOpen, save>>
    /\ UNCHANGED <<redisUp, outages, now, ticks, gwVars, turnVars, moreVars>>

\* the second SETEX: the latest pointer of the thread
SaveLatestPointer(s) ==
    /\ save[s].pc = "latest"
    /\ IF redisUp
       THEN /\ redis' = setEx(redis, latestKey(save[s].threadId), CHECKPOINT_TTL,
                              save[s].checkpointKey, now)
            /\ save' = [save EXCEPT ![s].pc = "cleanup"]
            /\ UNCHANGED faulty
       ELSE /\ save' = [save EXCEPT ![s] = IdleSave]
            /\ faulty' = [faulty EXCEPT ![save[s].threadId] = TRUE]
            /\ UNCHANGED redis
    /\ UNCHANGED <<redisUp, outages, isOpen, revision, now, ticks, gwVars, turnVars, moreVars>>

\* cleanupOldCheckpoints up to the KEYS command and the test on its result
CleanupListKeys(s) ==
    /\ save[s].pc = "cleanup"
    /\ IF redisUp
       THEN LET listed == keys(redis, pattern(save[s].threadId))
            IN /\ save' = [save EXCEPT ![s] =
                            IF Cardinality(listed) > MAX_CHECKPOINTS
                               /\ keysToDelete(listed) # {}
                            THEN [save[s] EXCEPT !.pc = "del", !.keys = listed]
                            ELSE IdleSave]
               /\ UNCHANGED faulty
       ELSE /\ save' = [save EXCEPT ![s] = IdleSave]
            /\ faulty' = [faulty EXCEPT ![save[s].threadId] = TRUE]
    /\ UNCHANGED <<redis, redisUp, outages, isOpen, revision, now, ticks, gwVars, turnVars, moreVars>>

\* the DEL of the keys beyond the MAX_CHECKPOINTS newest of the listing
CleanupDelete(s) ==
    /\ save[s].pc = "del"
    /\ save' = [save EXCEPT ![s] = IdleSave]
    /\ IF redisUp
       THEN /\ redis' = del(redis, keysToDelete(save[s].keys))
            /\ UNCHANGED faulty
       ELSE /\ faulty' = [faulty EXCEPT ![save[s].threadId] = TRUE]
            /\ UNCHANGED redis
    /\ UNCHANGED <<redisUp, outages, isOpen, revision, now, ticks, gwVars, turnVars, moreVars>>

\* the store becomes unreachable / reachable again; its content is kept.
\* Outages and expiry steps together are bounded by MaxIncidents.
StoreGoesDown ==
    /\ redisUp
    /\ outages + ticks < MaxIncidents
    /\ redisUp' = FALSE
    /\ outages' = outages + 1
    /\ UNCHANGED <<redis, isOpen, save, revision, faulty, now, ticks, gwVars, turnVars, moreVars>>

StoreComesBack ==
    /\ ~redisUp
    /\ redisUp' = TRUE
    /\ UNCHANGED <<redis, outages, isOpen, save, revision, faulty, now, ticks, gwVars, turnVars, moreVars>>

\* one millisecond, or all but one millisecond of the time to live
ExpirySteps == {1, CHECKPOINT_TTL * 1000 - 1}

\* Wall-clock time passes; the store drops the entries that run out.  Only
\* saveCheckpoint names its keys after the clock, so the clock moves on by one millisecond
\* only from a millisecond in which a checkpoint was written (a millisecond
\* without a write cannot be told from its successor); the long step is the
\* one that lets entries expire.
StoreTick(d) ==
    /\ IF d = 1
       THEN /\ \E t \in Threads : checkpointKey(t, now) \in DOMAIN redis
            /\ ticks' = ticks
       ELSE /\ outages + ticks < MaxIncidents
            /\ ticks' = ticks + 1
    /\ now' = now + d
    /\ redis' = Live(redis, now')
    /\ UNCHANGED <<redisUp, outages, isOpen, save, revision, faulty, gwVars, turnVars, moreVars>>

\* new ConversationManager(): a client that is not connected
InitManager ==
    /\ redisUp = TRUE
    /\ outages = 0
    /\ isOpen = FALSE
    /\ save = [s \in Savers |-> IdleSave]
    /\ revision = [t \in Threads |-> 0]
    /\ faulty = [t \in Threads |-> FALSE]

InitStore ==
    /\ redis = EmptyStore
    /\ InitManager

(***************************************************************************)
(* ConversationManager.recoverFromError, with getLastCheckpoint and        *)
(* logRecovery.  One action per awaited store command.  A command of       *)
(* getLastCheckpoint that fails makes it return null; a command of         *)
(* logRecovery that fails is logged and the recovered state is returned.   *)
(***************************************************************************)
Errors == {"timeout", "overloaded"}

IdleRecover ==
    [pc |-> "idle", threadId |-> NoThread, error |-> "", key |-> <<>>,
     checkpoint |-> <<>>, logEntry |-> <<>>, returned |-> <<>>]

\* new SystemMessage(`Recovered from error: ${error.message}. Continuing conversation...`)
recoveryNote(error) ==
    [role |-> "system",
     content |-> <<"Recovered from error: ", error, ". Continuing conversation...">>]

\* a recovered state that carries the whole message history of the snapshot
recoveredState_WholeHistory(checkpoint, error) ==
    [f \in (DOMAIN checkpoint.state) \cup {"messages"} |->
        IF f = "messages"
        THEN Append(IF "messages" \in DOMAIN checkpoint.state
                    THEN checkpoint.state.messages ELSE <<>>,
                    recoveryNote(error))
        ELSE checkpoint.state[f]]

\* { ...checkpoint.state, messages: [...checkpoint.context, note] }
recoveredState(checkpoint, error) ==
    [f \in (DOMAIN checkpoint.state) \cup {"messages"} |->
        IF f = "messages" THEN Append(checkpoint.context, recoveryNote(error))
                          ELSE checkpoint.state[f]]

\* LPUSH key element
lPush(list, element) == <<element>> \o list

\* LTRIM key start stop
lTrim(list, start, stop) ==
    SubSeq(list, start + 1, IF stop + 1 < Len(list) THEN stop + 1 ELSE Len(list))

\* the activation has returned: the result is <<>> for null, or <<state>>
Returns(rec, result) == [rec EXCEPT !.pc = "done", !.returned = result]

\* recoverFromError(threadId, error) up to the GET of the latest pointer
RecoverFromErrorCall(threadId, error) ==
    /\ recover.pc = "idle"
    /\ recoveries < MaxRecoveries
    /\ recoveries' = recoveries + 1
    /\ LET rec == [IdleRecover EXCEPT !.threadId = threadId, !.error = error]
       IN IF redisUp
          THEN /\ isOpen' = TRUE
               /\ recover' =
                    IF latestKey(threadId) \in DOMAIN redis
                    THEN [rec EXCEPT !.pc = "get", !.key = redis[latestKey(threadId)].value]
                    ELSE Returns(rec, <<>>)
          ELSE /\ recover' = Returns(rec, <<>>)
               /\ UNCHANGED isOpen
    /\ UNCHANGED <<redis, redisUp, outages, save, revision, faulty, recoveryLogs,
                   now, ticks, gwVars, turnVars, cacheVars, filterVars, metricVars, downloadVars, flagVars>>

\* the GET of the checkpoint the pointer names; the recovered state and the
\* log entry are built as soon as it answers
RecoverGetCheckpoint ==
    /\ recover.pc = "get"
    /\ recover' =
         IF redisUp /\ recover.key \in DOMAIN redis
         THEN [recover EXCEPT
                 !.pc = "lpush",
                 !.checkpoint = <<redis[recover.key].value>>,
                 !.logEntry = <<[threadId |-> recover.threadId,
                                 error |-> recover.error, timestamp |-> now]>>]
         ELSE Returns(recover, <<>>)
    /\ UNCHANGED <<ckVars, recoveryLogs, recoveries, now, ticks, gwVars, turnVars, cacheVars, filterVars, metricVars, downloadVars, flagVars>>

\* logRecovery: LPUSH 'recovery_logs'
RecoverLogPush ==
    /\ recover.pc = "lpush"
    /\ IF redisUp
       THEN /\ recoveryLogs' = lPush(recoveryLogs, recover.logEntry[1])
            /\ recover' = [recover EXCEPT !.pc = "ltrim"]
       ELSE /\ recover' = Returns(recover,
                            <<recoveredState(recover.checkpoint[1], recover.error)>>)
            /\ UNCHANGED recoveryLogs
    /\ UNCHANGED <<ckVars, recoveries, now, ticks, gwVars, turnVars, cacheVars, filterVars, metricVars, downloadVars, flagVars>>

\* logRecovery: LTRIM 'recovery_logs' 0 99, then the return of the state
RecoverLogTrim ==
    /\ recover.pc = "ltrim"
    /\ recoveryLogs' = IF redisUp THEN lTrim(recoveryLogs, 0, RECOVERY_LOG_STOP)
                                  ELSE recoveryLogs
    /\ recover' = Returns(recover,
                    <<recoveredState(recover.checkpoint[1], recover.error)>>)
    /\ UNCHANGED <<ckVars, recoveries, now, ticks, gwVars, turnVars, cacheVars, filterVars, metricVars, downloadVars, flagVars>>

\* the caller takes the result
RecoverReturns ==
    /\ recover.pc = "done"
    /\ recover' = IdleRecover
    /\ UNCHANGED <<ckVars, recoveryLogs, recoveries, now, ticks, gwVars, turnVars, cacheVars, filterVars, metricVars, downloadVars, flagVars>>

InitRecover ==
    /\ recover = IdleRecover
    /\ recoveryLogs = <<>>
    /\ recoveries = 0

(***************************************************************************)
(* CacheManager: cache keys.  A string is a sequence of characters; the    *)
(* content handed to generateCacheKey is a string or, from chat_node, an   *)
(* object.                                                                 *)
(***************************************************************************)
Chars == {"a", "A", "b", " ", ":"}

Str(chars) == [type |-> "string", chars |-> chars]

\* a value that is not a string
Obj == [type |-> "object", chars |-> <<>>]

TypeError == <<"TypeError">>

\* String.prototype.toLowerCase
toLowerCase(chars) ==
    [i \in 1..Len(chars) |-> IF chars[i] = "A" THEN "a" ELSE chars[i]]

RECURSIVE trimStart(_)
trimStart(chars) ==
    IF chars # <<>> /\ Head(chars) = " " THEN trimStart(Tail(chars)) ELSE chars

RECURSIVE trimEnd(_)
trimEnd(chars) ==
    IF chars # <<>> /\ chars[Len(chars)] = " "
    THEN trimEnd(SubSeq(chars, 1, Len(chars) - 1)) ELSE chars

\* trim that also collapses every run of white space into one blank
RECURSIVE collapse(_)
collapse(chars) ==
    IF Len(chars) < 2 THEN chars
    ELSE IF chars[1] = " " /\ chars[2] = " " THEN collapse(Tail(chars))
    ELSE <<chars[1]>> \o collapse(Tail(chars))

trim_Collapsing(chars) == collapse(trimEnd(trimStart(chars)))

\* String.prototype.trim: the white space at both ends goes, the rest stays
trim(chars) == trimEnd(trimStart(chars))

\* createHash('sha256').update(text).digest('hex').substring(0, 16): the
\* first 64 bits of the digest, which differ for the texts considered here
digest16(chars) == <<"sha256", chars>>

\* CacheManager.hashContent: content.toLowerCase().trim() exists on strings
hashContent(content) ==
    IF content.type # "string" THEN TypeError
    ELSE digest16(trim(toLowerCase(content.chars)))

\* CacheManager.generateCacheKey(type, content)
generateCacheKey(type, content) ==
    IF hashContent(content) = TypeError THEN TypeError
    ELSE <<"research_cache", type, hashContent(content)>>

(***************************************************************************)
(* CacheManager: the three categories that have a reader.  A write is      *)
(* one SETEX, which the store executes some time after the entry was       *)
(* stamped; a read is one GET and, for an entry that is too old, one DEL.  *)
(* Every operation runs inside try/catch: a command that fails ends the    *)
(* operation, a read with null.                                            *)
(***************************************************************************)
Categories == {"search", "llm", "resource"}

\* one time to live for every category
ttlOf_Default(type) == DEFAULT_TTL

\* the time to live given to SETEX, in seconds
ttlOf(type) ==
    CASE type = "llm"      -> LLM_TTL
      [] type = "resource" -> RESOURCE_TTL
      [] OTHER             -> DEFAULT_TTL

\* the age in milliseconds below which a read serves the entry
freshFor(type) ==
    CASE type = "llm"      -> LLM_FRESH_MS
      [] type = "resource" -> RESOURCE_FRESH_MS
      [] OTHER             -> SEARCH_FRESH_MS

\* `Date.now() - timestamp < ...`, with the bound of the category
IsFresh_Inclusive(entry, type, t) == t - entry.timestamp <= freshFor(type)

IsFresh(entry, type, t) == t - entry.timestamp < freshFor(type)

\* `${model}:${prompt}`
llmContent(model, prompt) == Str(model \o <<":">> \o prompt)

\* the modules that hold a CacheManager of their own
Components == {"chat", "download"}

IdleSet == [pc |-> "idle", key |-> <<>>, seconds |-> 0, data |-> <<>>]

IdleGet ==
    [pc |-> "idle", component |-> "none", type |-> "none", content |-> <<>>,
     key |-> <<>>, result |-> <<>>]

\* initialize(): connect unless the client is open; the connect fails when
\* the store is unreachable
CanInitialize(c) == cacheOpen[c] \/ redisUp

\* cacheResponse / cacheLLMResponse / cacheResourceContent up to the SETEX
CacheSetCall(c, type, content, response) ==
    /\ cacheSet.pc = "idle"
    /\ cacheOps.sets < MaxCacheSets
    /\ cacheOps' = [cacheOps EXCEPT !.sets = @ + 1]
    /\ IF CanInitialize(c)
       THEN /\ cacheOpen' = [cacheOpen EXCEPT ![c] = TRUE]
            /\ cacheSet' = [pc |-> "setex", key |-> generateCacheKey(type, content),
                            seconds |-> ttlOf(type),
                            data |-> <<[response |-> response, timestamp |-> now]>>]
       ELSE UNCHANGED <<cacheOpen, cacheSet>>
    /\ UNCHANGED <<cacheOp, cacheTicks, lastSet, evicted, now, ticks, gwVars, ckVars, turnVars, recVars, filterVars, metricVars, downloadVars, flagVars>>

\* the store executes the SETEX, or the command fails
CacheSetArrives ==
    /\ cacheSet.pc = "setex"
    /\ cacheSet' = IdleSet
    /\ IF redisUp
       THEN /\ redis' = setEx(redis, cacheSet.key, cacheSet.seconds, cacheSet.data[1], now)
            /\ lastSet' = setEx(lastSet, cacheSet.key, cacheSet.seconds, cacheSet.data[1], now)
            /\ evicted' = evicted \ {cacheSet.key}
       ELSE UNCHANGED <<redis, lastSet, evicted>>
    /\ UNCHANGED <<redisUp, outages, isOpen, save, revision, faulty>>
    /\ UNCHANGED <<cacheOp, cacheOpen, cacheOps, cacheTicks, now, ticks, gwVars, turnVars, recVars, filterVars, metricVars, downloadVars, flagVars>>

\* getCachedResponse / getCachedLLMResponse / getCachedResourceContent up to
\* the answer of the GET and the test of the age of the entry
CacheGetCall(c, type, content) ==
    /\ cacheOp.pc = "idle"
    /\ cacheOps.gets < MaxCacheGets
    /\ cacheOps' = [cacheOps EXCEPT !.gets = @ + 1]
    /\ LET key == generateCacheKey(type, content)
           rec == [IdleGet EXCEPT !.component = c, !.type = type,
                                  !.content = content, !.key = key]
       IN IF CanInitialize(c) /\ redisUp
          THEN /\ cacheOpen' = [cacheOpen EXCEPT ![c] = TRUE]
               /\ cacheOp' =
                    IF key \notin DOMAIN redis
                    THEN [rec EXCEPT !.pc = "done"]
                    ELSE IF IsFresh(redis[key].value, type, now)
                    THEN [rec EXCEPT !.pc = "done", !.result = <<redis[key].value.response>>]
                    ELSE [rec EXCEPT !.pc = "del"]
          ELSE /\ cacheOp' = [rec EXCEPT !.pc = "done"]
               /\ UNCHANGED cacheOpen
    /\ UNCHANGED <<cacheSet, cacheTicks, lastSet, evicted, now, ticks, gwVars, ckVars, turnVars, recVars, filterVars, metricVars, downloadVars, flagVars>>

\* the DEL of an entry found too old, then the return of null
CacheDelete ==
    /\ cacheOp.pc = "del"
    /\ cacheOp' = [cacheOp EXCEPT !.pc = "done"]
    /\ redis' = IF redisUp THEN del(redis, {cacheOp.key}) ELSE redis
    /\ evicted' = IF redisUp THEN evicted \cup {cacheOp.key} ELSE evicted
    /\ UNCHANGED <<redisUp, outages, isOpen, save, revision, faulty>>
    /\ UNCHANGED <<cacheSet, cacheOpen, cacheOps, cacheTicks, lastSet, now, ticks, gwVars, turnVars, recVars, filterVars, metricVars, downloadVars, flagVars>>

\* the caller takes the result
CacheGetReturns ==
    /\ cacheOp.pc = "done"
    /\ cacheOp' = IdleGet
    /\ UNCHANGED <<cacheSet, cacheOpen, cacheOps, cacheTicks, lastSet, evicted, now,
                   ticks, gwVars, ckVars, turnVars, recVars, filterVars, metricVars, downloadVars, flagVars>>

\* one millisecond, or all but one millisecond of the life of an entry
CacheSteps == {1} \cup { freshFor(type) - 1 : type \in Categories }

\* the categories of the entries that are in the store or on their way to it
CategoriesInUse ==
    { k[2] : k \in { j \in DOMAIN redis : j[1] = "research_cache" } }
        \cup (IF cacheSet.pc = "setex" THEN {cacheSet.key[2]} ELSE {})

\* Wall-clock time passes; the store drops the entries that run out.  Time
\* is read only to stamp an entry and to take its age, so the clock moves
\* on only while an entry is on its way or in the store, and by the life
\* of a category only while the category is in use.
CacheTick(d) ==
    /\ cacheTicks < MaxCacheTicks
    /\ CategoriesInUse # {}
    /\ d = 1 \/ \E type \in CategoriesInUse : d = freshFor(type) - 1
    /\ cacheTicks' = cacheTicks + 1
    /\ now' = now + d
    /\ redis' = Live(redis, now')
    /\ UNCHANGED <<redisUp, outages, isOpen, save, revision, faulty, ticks>>
    /\ UNCHANGED <<cacheOp, cacheSet, cacheOpen, cacheOps, lastSet, evicted>>
    /\ UNCHANGED <<gwVars, turnVars, recVars, filterVars, metricVars, downloadVars, flagVars>>

InitCache ==
    /\ cacheOp = IdleGet
    /\ cacheSet = IdleSet
    /\ cacheOpen = [c \in Components |-> FALSE]
    /\ cacheOps = [sets |-> 0, gets |-> 0]
    /\ cacheTicks = 0
    /\ lastSet = EmptyStore
    /\ evicted = {}

NoCall == [fn |-> "none", args |-> <<>>, result |-> <<>>]

InitCall == call = NoCall

(***************************************************************************)
(* SafetyFilter.  A text is a sequence of fragments; a fragment is a       *)
(* piece of text that the patterns of the filter match as a whole or not   *)
(* at all, with its length in characters.  The fragments that a \b         *)
(* pattern looks for carry their own delimiters.                           *)
(***************************************************************************)
Frag(text, len) == [text |-> text, len |-> len]

Plain    == Frag("(ok)", 4)
Space    == Frag(" ", 1)
Angle    == Frag("<", 1)
SSN      == Frag("(123-45-6789)", 13)
Ignore   == Frag("ignore all instructions", 23)
Role     == Frag("system:", 7)
Template == Frag("{{x}}", 5)
Hate     == Frag("hate", 4)
Kill     == Frag("(kill)", 6)
Story    == Frag("(story)", 7)
UrlEnc   == Frag("%41", 3)
Base64   == Frag("QUJDREVGR0hJSktMTU5PUA==", 24)

\* n characters that no pattern matches
Filler(n) == Frag(".", n)

\* what the replacements leave behind
Redacted      == Frag("([REDACTED])", 12)
TemplateInner == Frag("x", 1)

Has(text, fragment) == \E i \in 1..Len(text) : text[i] = fragment

RECURSIVE length(_)
length(text) == IF text = <<>> THEN 0 ELSE Head(text).len + length(Tail(text))

\* the part of a fragment that a cut leaves
CutTo(fragment, n) ==
    IF fragment.text = "." THEN Filler(n) ELSE Frag("cut", n)

\* String.prototype.substring(0, n)
RECURSIVE substring(_, _)
substring(text, n) ==
    IF text = <<>> \/ n = 0 THEN <<>>
    ELSE IF Head(text).len <= n
         THEN <<Head(text)>> \o substring(Tail(text), n - Head(text).len)
         ELSE <<CutTo(Head(text), n)>>

\* the index of the first character of the i-th fragment
Offset(text, i) == length(SubSeq(text, 1, i - 1))

Issue(type, severity) == [type |-> type, severity |-> severity]

\* /\{\{.*\}\}/g.exec(input): the search starts at lastIndex; a match runs
\* from the first template at or after it to the last one of the text and
\* leaves lastIndex behind its end; a failed search resets lastIndex
TemplatesFrom(text, lastIndex) ==
    { i \in 1..Len(text) : text[i] = Template /\ Offset(text, i) >= lastIndex }

TemplateExec(text, lastIndex) ==
    LET found == TemplatesFrom(text, lastIndex)
    IN IF found = {}
       THEN [match |-> FALSE, lastIndex |-> 0]
       ELSE LET last == CHOOSE i \in found : \A j \in found : j <= i
            IN [match |-> TRUE, lastIndex |-> Offset(text, last) + Template.len]

\* checkPromptInjection: the patterns, role confusion, instruction manipulation
checkPromptInjection(input, lastIndex) ==
    (IF Has(input, Ignore) THEN <<Issue("prompt_injection", "high")>> ELSE <<>>)
    \o (IF TemplateExec(input, lastIndex).match
        THEN <<Issue("prompt_injection", "high")>> ELSE <<>>)
    \o (IF Has(input, Role) THEN <<Issue("prompt_injection", "medium")>> ELSE <<>>)
    \o (IF Has(input, Ignore) THEN <<Issue("prompt_injection", "high")>> ELSE <<>>)

\* checkToxicity: the keywords, violent language outside fiction
checkToxicity(input) ==
    (IF Has(input, Hate) THEN <<Issue("toxicity", "medium")>> ELSE <<>>)
    \o (IF Has(input, Kill) /\ ~Has(input, Story)
        THEN <<Issue("toxicity", "high")>> ELSE <<>>)

\* checkPII
checkPII(input) ==
    IF Has(input, SSN) THEN <<Issue("pii", "medium")>> ELSE <<>>

\* checkEncoding
checkEncoding(input) ==
    (IF Has(input, UrlEnc) THEN <<Issue("encoding", "medium")>> ELSE <<>>)
    \o (IF Has(input, Base64) THEN <<Issue("encoding", "low")>> ELSE <<>>)

\* replace(pattern, '[REDACTED]') for every pattern of PII_PATTERNS
redactPII(text) ==
    [i \in 1..Len(text) |-> IF text[i] = SSN THEN Redacted ELSE text[i]]

\* replace(/\s+/g, ' '): every run of white space becomes one blank
RECURSIVE collapseSpaces(_)
collapseSpaces(text) ==
    IF Len(text) < 2 THEN text
    ELSE IF text[1] = Space /\ text[2] = Space THEN collapseSpaces(Tail(text))
    ELSE <<text[1]>> \o collapseSpaces(Tail(text))

RECURSIVE dropLeading(_)
dropLeading(text) ==
    IF text # <<>> /\ Head(text) = Space THEN dropLeading(Tail(text)) ELSE text

RECURSIVE dropTrailing(_)
dropTrailing(text) ==
    IF text # <<>> /\ text[Len(text)] = Space
    THEN dropTrailing(SubSeq(text, 1, Len(text) - 1)) ELSE text

\* replace(/\s+/g, ' ').trim()
normalizeWhitespace(text) == dropTrailing(dropLeading(collapseSpaces(text)))

\* replace(/[<>{}]/g, '')
RECURSIVE stripDangerous(_)
stripDangerous(text) ==
    IF text = <<>> THEN <<>>
    ELSE IF Head(text) = Angle THEN stripDangerous(Tail(text))
    ELSE IF Head(text) = Template THEN <<TemplateInner>> \o stripDangerous(Tail(text))
    ELSE <<Head(text)>> \o stripDangerous(Tail(text))

\* sanitizeInput
sanitizeInput(text) == stripDangerous(normalizeWhitespace(redactPII(text)))

\* a policy that blocks on high severity only
IsBlocking_HighOnly(issue) == issue.severity = "high"

\* `issue.severity === 'high' || (issue.type === 'prompt_injection' && issue.severity === 'medium')`
IsBlocking(issue) ==
    \/ issue.severity = "high"
    \/ issue.type = "prompt_injection" /\ issue.severity = "medium"

\* calculateOverallSeverity
calculateOverallSeverity(issues) ==
    IF \E i \in 1..Len(issues) : issues[i].severity = "high" THEN "high"
    ELSE IF \E i \in 1..Len(issues) : issues[i].severity = "medium" THEN "medium"
    ELSE "low"

\* validateInput, given lastIndex of the template pattern
validateInput(input, lastIndex) ==
    LET tooLong   == length(input) > MAX_INPUT_LENGTH
        truncated == IF tooLong THEN substring(input, MAX_INPUT_LENGTH) ELSE input
        issues    == (IF tooLong THEN <<Issue("length", "medium")>> ELSE <<>>)
                     \o checkPromptInjection(input, lastIndex)
                     \o checkToxicity(input)
                     \o checkPII(input)
                     \o checkEncoding(input)
        blocked   == \E i \in 1..Len(issues) : IsBlocking(issues[i])
    IN [isValid   |-> ~blocked /\ Len(issues) = 0,
        issues    |-> issues,
        sanitized |-> IF blocked THEN <<>> ELSE sanitizeInput(truncated),
        severity  |-> calculateOverallSeverity(issues),
        blocked   |-> blocked]

(***************************************************************************)
(* SafetyFilter.validateOutput                                             *)
(***************************************************************************)
OpenAI    == Frag("openai", 6)
Gpt4      == Frag("gpt-4", 5)
GptDash   == Frag("gpt-x", 5)
Claude    == Frag("claude", 6)
ApiKey    == Frag("api_key", 7)
Localhost == Frag("localhost", 9)
Internal  == Frag("internal", 8)
ErrorWord == Frag("error", 5)

Apology         == Frag("I apologize, but I can't provide that response. Let me try again with a different approach.", 91)
TheAISystem     == Frag("the AI system", 13)
TheAIAssistant  == Frag("the AI assistant", 16)
SystemInfo      == Frag("[SYSTEM INFO]", 13)
InternalAddress == Frag("[INTERNAL ADDRESS]", 18)

\* containsToxicity: one of TOXIC_KEYWORDS occurs
containsToxicity(output) == Has(output, Hate)

\* containsPII
containsPII(output) == Has(output, SSN)

\* containsSystemInfo: the four patterns
containsSystemInfo(output) ==
    \/ \E f \in {OpenAI, Claude, Gpt4, GptDash} : Has(output, f)
    \/ Has(output, ApiKey)
    \/ Has(output, ErrorWord)
    \/ \E f \in {Localhost, Internal} : Has(output, f)

\* redactSystemInfo: the four replacements
redactSystemInfo(output) ==
    [i \in 1..Len(output) |->
        CASE output[i] \in {OpenAI, Gpt4} -> TheAISystem
          [] output[i] = Claude           -> TheAIAssistant
          [] output[i] = ApiKey           -> SystemInfo
          [] output[i] = Localhost        -> InternalAddress
          [] OTHER                        -> output[i]]

\* validateOutput
validateOutput(output) ==
    IF containsToxicity(output) THEN <<Apology>>
    ELSE IF containsPII(output) THEN redactPII(output)
    ELSE IF containsSystemInfo(output) THEN redactSystemInfo(output)
    ELSE output

(***************************************************************************)
(* Calls of the filter.  The template pattern is the one pattern of        *)
(* validateInput that is global and used with exec, so its lastIndex       *)
(* lives on from call to call.                                             *)
(***************************************************************************)
CallValidateInput(input) ==
    /\ call = NoCall
    /\ call' = [fn |-> "validateInput", args |-> <<input>>, result |-> <<>>]
    /\ UNCHANGED <<templateLastIndex, now, ticks, gwVars, ckVars, turnVars, recVars, cacheVars, metricVars, downloadVars, flagVars>>

ValidateInputReturns ==
    /\ call.fn = "validateInput"
    /\ call.result = <<>>
    /\ call' = [call EXCEPT !.result = <<validateInput(call.args[1], templateLastIndex)>>]
    /\ templateLastIndex' = TemplateExec(call.args[1], templateLastIndex).lastIndex
    /\ UNCHANGED <<now, ticks, gwVars, ckVars, turnVars, recVars, cacheVars, metricVars, downloadVars, flagVars>>

CallValidateOutput(output) ==
    /\ call = NoCall
    /\ call' = [fn |-> "validateOutput", args |-> <<output>>, result |-> <<>>]
    /\ UNCHANGED <<templateLastIndex, now, ticks, gwVars, ckVars, turnVars, recVars, cacheVars, metricVars, downloadVars, flagVars>>

ValidateOutputReturns ==
    /\ call.fn = "validateOutput"
    /\ call.result = <<>>
    /\ call' = [call EXCEPT !.result = <<validateOutput(call.args[1])>>]
    /\ UNCHANGED <<templateLastIndex, now, ticks, gwVars, ckVars, turnVars, recVars, cacheVars, metricVars, downloadVars, flagVars>>

\* the caller takes the result
FilterReturns ==
    /\ call.fn \in {"validateInput", "validateOutput"}
    /\ call.result # <<>>
    /\ call' = NoCall
    /\ UNCHANGED <<templateLastIndex, now, ticks, gwVars, ckVars, turnVars, recVars, cacheVars, metricVars, downloadVars, flagVars>>

\* new SafetyFilter()
InitFilter == templateLastIndex = 0

(***************************************************************************)
(* MetricsCollector (monitoring/metrics.ts).  The alerts live in the       *)
(* shared store under `alert:${id}`; the list 'alerts:active' and the      *)
(* hourly hashes `metrics:hour:${hour}` are kept apart from the string     *)
(* keys.  One action per awaited store command whose effect is modelled;   *)
(* a run of commands on fields that no alert reads is one action.  Any     *)
(* command fails while the store is down, initialize() included.  Costs    *)
(* are whole dollars.                                                      *)
(***************************************************************************)
HourOf(t) == t \div HOUR_MS

\* `alert:${alertId}`
alertKey(alertId) == <<"alert", alertId>>

ProviderNames == {"openai", "anthropic"}

\* `provider:${metrics.provider}:requests` and the like
providerField(provider, name) == "provider:" \o provider \o ":" \o name

\* the fields updateAggregatedMetrics increments in an hourly hash
BucketFields ==
    {"total_requests", "total_tokens", "total_cost", "total_duration", "error_count"}
        \cup { providerField(p, name) : p \in ProviderNames,
                                         name \in {"requests", "tokens", "cost"} }

NoBucket == [f \in BucketFields |-> 0]

\* HGET of a field of an hourly hash: <<>> for a field that was never
\* incremented
hGet(hash, hour, field) ==
    IF hour \in DOMAIN hash /\ hash[hour][field] # 0 THEN <<hash[hour][field]>> ELSE <<>>

\* HINCRBY / HINCRBYFLOAT
hIncrBy(hash, hour, field, amount) ==
    [h \in (DOMAIN hash) \cup {hour} |->
        IF h = hour
        THEN [(IF hour \in DOMAIN hash THEN hash[hour] ELSE NoBucket) EXCEPT ![field] = @ + amount]
        ELSE hash[h]]

IsSlow_Inclusive(duration) == duration >= SLOW_RESPONSE

IsSlow(duration) == duration > SLOW_RESPONSE

Alert(id, type, severity, timestamp) ==
    [id |-> id, type |-> type, severity |-> severity, timestamp |-> timestamp,
     resolved |-> FALSE]

\* checkAlerts, lines 156-169
slowAlerts(metrics, t) ==
    IF IsSlow(metrics.duration)
    THEN <<Alert(<<"slow_response", t>>, "SLOW_RESPONSE",
                 IF metrics.duration > 20000 THEN "high" ELSE "medium", t)>>
    ELSE <<>>

\* checkAlerts, lines 174-186
tokenAlerts(hourlyTokens, hour, t) ==
    IF hourlyTokens # <<>> /\ hourlyTokens[1] > TOKEN_LIMIT
    THEN <<Alert(<<"token_limit", hour>>, "TOKEN_LIMIT", "high", t)>>
    ELSE <<>>

\* checkAlerts, lines 189-200
costAlerts(hourlyCost, hour, t) ==
    IF hourlyCost # <<>> /\ hourlyCost[1] > COST_THRESHOLD
    THEN <<Alert(<<"cost_threshold", hour>>, "COST_THRESHOLD", "high", t)>>
    ELSE <<>>

\* alerts.sort((a, b) => b.timestamp - a.timestamp): stable, newest first
insertByTimestamp(sorted, alert) ==
    SelectSeq(sorted, LAMBDA a : a.timestamp >= alert.timestamp)
        \o <<alert>>
        \o SelectSeq(sorted, LAMBDA a : a.timestamp < alert.timestamp)

RECURSIVE sortFirst(_, _)
sortFirst(list, n) ==
    IF n = 0 THEN <<>>
    ELSE insertByTimestamp(sortFirst(list, n - 1), list[n])

sortByTimestamp(list) == sortFirst(list, Len(list))

\* the loop of getActiveAlerts over the ids of the list
RECURSIVE unresolvedOf(_, _)
unresolvedOf(store, alertIds) ==
    IF alertIds = <<>> THEN <<>>
    ELSE (IF alertKey(Head(alertIds)) \in DOMAIN store
             /\ ~store[alertKey(Head(alertIds))].value.resolved
          THEN <<store[alertKey(Head(alertIds))].value>>
          ELSE <<>>) \o unresolvedOf(store, Tail(alertIds))

\* getActiveAlerts(): [] when the store fails
getActiveAlerts(store, list, up, t) ==
    IF ~up THEN <<>> ELSE sortByTimestamp(unresolvedOf(Live(store, t), list))

IdleRecord ==
    [pc |-> "idle", metrics |-> [duration |-> 0, tokensUsed |-> 0, cost |-> 0],
     hour |-> 0, alerts |-> <<>>, next |-> 0, caught |-> FALSE]

IdleResolve == [pc |-> "idle", alertId |-> <<>>, alert |-> <<>>, returned |-> FALSE]

\* the catch block of recordRequest
Caught(rec) == [rec EXCEPT !.pc = "done", !.caught = TRUE]

\* recordRequest(...) up to the SETEX of the request metric
RecordRequestCall(duration, tokensUsed, cost) ==
    /\ record.pc = "idle"
    /\ metricOps.records < MaxRecords
    /\ metricOps' = [metricOps EXCEPT !.records = @ + 1]
    /\ LET rec == [IdleRecord EXCEPT !.metrics = [duration |-> duration,
                                                  tokensUsed |-> tokensUsed,
                                                  cost |-> cost]]
       IN record' = IF redisUp THEN [rec EXCEPT !.pc = "store"] ELSE Caught(rec)
    /\ UNCHANGED <<alertsActive, hourly, resolve, resolvedIds>>
    /\ UNCHANGED <<now, ticks, gwVars, ckVars, turnVars, recVars, cacheVars, filterVars, recorders, downloadVars, flagVars>>

\* the SETEX of the request metric; updateAggregatedMetrics takes the hour
\* and increments total_requests
RecordStoreMetric ==
    /\ record.pc = "store"
    /\ record' = IF redisUp THEN [record EXCEPT !.pc = "tokens", !.hour = HourOf(now)]
                            ELSE Caught(record)
    /\ UNCHANGED <<alertsActive, hourly, resolve, resolvedIds, metricOps>>
    /\ UNCHANGED <<now, ticks, gwVars, ckVars, turnVars, recVars, cacheVars, filterVars, recorders, downloadVars, flagVars>>

\* hIncrBy(hourKey, 'total_tokens', metrics.tokensUsed)
RecordTokens ==
    /\ record.pc = "tokens"
    /\ IF redisUp
       THEN /\ hourly' = hIncrBy(hourly, record.hour, "total_tokens", record.metrics.tokensUsed)
            /\ record' = [record EXCEPT !.pc = "cost"]
       ELSE /\ record' = Caught(record)
            /\ UNCHANGED hourly
    /\ UNCHANGED <<alertsActive, resolve, resolvedIds, metricOps>>
    /\ UNCHANGED <<now, ticks, gwVars, ckVars, turnVars, recVars, cacheVars, filterVars, recorders, downloadVars, flagVars>>

\* hIncrByFloat(hourKey, 'total_cost', metrics.cost)
RecordCost ==
    /\ record.pc = "cost"
    /\ IF redisUp
       THEN /\ hourly' = hIncrBy(hourly, record.hour, "total_cost", record.metrics.cost)
            /\ record' = [record EXCEPT !.pc = "rest"]
       ELSE /\ record' = Caught(record)
            /\ UNCHANGED hourly
    /\ UNCHANGED <<alertsActive, resolve, resolvedIds, metricOps>>
    /\ UNCHANGED <<now, ticks, gwVars, ckVars, turnVars, recVars, cacheVars, filterVars, recorders, downloadVars, flagVars>>

\* the other increments and the EXPIRE of the hash; checkAlerts then builds
\* the slow-response alert, takes the hour and issues the first HGET
RecordRest ==
    /\ record.pc = "rest"
    /\ record' = IF redisUp
                 THEN [record EXCEPT !.pc = "hGetTokens",
                                     !.alerts = slowAlerts(record.metrics, now),
                                     !.hour = HourOf(now)]
                 ELSE Caught(record)
    /\ UNCHANGED <<alertsActive, hourly, resolve, resolvedIds, metricOps>>
    /\ UNCHANGED <<now, ticks, gwVars, ckVars, turnVars, recVars, cacheVars, filterVars, recorders, downloadVars, flagVars>>

\* hGet(hourKey, 'total_tokens')
RecordGetTokens ==
    /\ record.pc = "hGetTokens"
    /\ record' = IF redisUp
                 THEN [record EXCEPT
                         !.pc = "hGetCost",
                         !.alerts = @ \o tokenAlerts(hGet(hourly, record.hour, "total_tokens"),
                                                     record.hour, now)]
                 ELSE Caught(record)
    /\ UNCHANGED <<alertsActive, hourly, resolve, resolvedIds, metricOps>>
    /\ UNCHANGED <<now, ticks, gwVars, ckVars, turnVars, recVars, cacheVars, filterVars, recorders, downloadVars, flagVars>>

\* hGet(hourKey, 'total_cost'); the loop over the alerts starts
RecordGetCost ==
    /\ record.pc = "hGetCost"
    /\ record' = IF redisUp
                 THEN LET all == record.alerts
                                   \o costAlerts(hGet(hourly, record.hour, "total_cost"),
                                                 record.hour, now)
                      IN [record EXCEPT !.alerts = all,
                                        !.next = IF all = <<>> THEN 0 ELSE 1,
                                        !.pc = IF all = <<>> THEN "done" ELSE "setEx"]
                 ELSE Caught(record)
    /\ UNCHANGED <<alertsActive, hourly, resolve, resolvedIds, metricOps>>
    /\ UNCHANGED <<now, ticks, gwVars, ckVars, turnVars, recVars, cacheVars, filterVars, recorders, downloadVars, flagVars>>

\* storeAlert: setEx(alertKey, 86400, JSON.stringify(alert))
AlertSetEx ==
    /\ record.pc = "setEx"
    /\ IF redisUp
       THEN /\ redis' = setEx(redis, alertKey(record.alerts[record.next].id), ALERT_TTL,
                              record.alerts[record.next], now)
            /\ record' = [record EXCEPT !.pc = "lPush"]
       ELSE /\ record' = Caught(record)
            /\ UNCHANGED redis
    /\ UNCHANGED <<alertsActive, hourly, resolve, resolvedIds, metricOps>>
    /\ UNCHANGED <<redisUp, outages, isOpen, save, revision, faulty>>
    /\ UNCHANGED <<now, ticks, gwVars, turnVars, recVars, cacheVars, filterVars, recorders, downloadVars, flagVars>>

\* storeAlert: lPush('alerts:active', alert.id)
AlertPush ==
    /\ record.pc = "lPush"
    /\ IF redisUp
       THEN /\ alertsActive' = lPush(alertsActive, record.alerts[record.next].id)
            /\ record' = [record EXCEPT !.pc = "lTrim"]
       ELSE /\ record' = Caught(record)
            /\ UNCHANGED alertsActive
    /\ UNCHANGED <<hourly, resolve, resolvedIds, metricOps>>
    /\ UNCHANGED <<now, ticks, gwVars, ckVars, turnVars, recVars, cacheVars, filterVars, recorders, downloadVars, flagVars>>

\* storeAlert: lTrim('alerts:active', 0, 99); then the next alert
AlertTrim ==
    /\ record.pc = "lTrim"
    /\ IF redisUp
       THEN /\ alertsActive' = lTrim(alertsActive, 0, ALERT_LIST_STOP)
            /\ record' = IF record.next < Len(record.alerts)
                         THEN [record EXCEPT !.pc = "setEx", !.next = @ + 1]
                         ELSE [record EXCEPT !.pc = "done"]
       ELSE /\ record' = Caught(record)
            /\ UNCHANGED alertsActive
    /\ UNCHANGED <<hourly, resolve, resolvedIds, metricOps>>
    /\ UNCHANGED <<now, ticks, gwVars, ckVars, turnVars, recVars, cacheVars, filterVars, recorders, downloadVars, flagVars>>

RecordReturns ==
    /\ record.pc = "done"
    /\ record' = IdleRecord
    /\ UNCHANGED <<alertsActive, hourly, resolve, resolvedIds, metricOps>>
    /\ UNCHANGED <<now, ticks, gwVars, ckVars, turnVars, recVars, cacheVars, filterVars, recorders, downloadVars, flagVars>>

\* resolveAlert(alertId) up to the SETEX: the GET of the alert
ResolveAlertCall(alertId) ==
    /\ resolve.pc = "idle"
    /\ metricOps.resolves < MaxResolves
    /\ metricOps' = [metricOps EXCEPT !.resolves = @ + 1]
    /\ resolve' =
          IF redisUp /\ alertKey(alertId) \in DOMAIN Live(redis, now)
          THEN [pc |-> "setEx", alertId |-> alertId,
                alert |-> [redis[alertKey(alertId)].value EXCEPT !.resolved = TRUE],
                returned |-> FALSE]
          ELSE [pc |-> "done", alertId |-> alertId, alert |-> <<>>, returned |-> FALSE]
    /\ UNCHANGED <<alertsActive, hourly, record, resolvedIds>>
    /\ UNCHANGED <<now, ticks, gwVars, ckVars, turnVars, recVars, cacheVars, filterVars, recorders, downloadVars, flagVars>>

\* setEx(`alert:${alertId}`, 86400, JSON.stringify(alert)); return true
ResolveSetEx ==
    /\ resolve.pc = "setEx"
    /\ IF redisUp
       THEN /\ redis' = setEx(redis, alertKey(resolve.alertId), ALERT_TTL, resolve.alert, now)
            /\ resolve' = [resolve EXCEPT !.pc = "done", !.returned = TRUE]
            /\ resolvedIds' = resolvedIds \cup {resolve.alertId}
       ELSE /\ resolve' = [resolve EXCEPT !.pc = "done"]
            /\ UNCHANGED <<redis, resolvedIds>>
    /\ UNCHANGED <<alertsActive, hourly, record, metricOps>>
    /\ UNCHANGED <<redisUp, outages, isOpen, save, revision, faulty>>
    /\ UNCHANGED <<now, ticks, gwVars, turnVars, recVars, cacheVars, filterVars, recorders, downloadVars, flagVars>>

ResolveReturns ==
    /\ resolve.pc = "done"
    /\ resolve' = IdleResolve
    /\ UNCHANGED <<alertsActive, hourly, record, resolvedIds, metricOps>>
    /\ UNCHANGED <<now, ticks, gwVars, ckVars, turnVars, recVars, cacheVars, filterVars, recorders, downloadVars, flagVars>>

\* what a getActiveAlerts() call made now returns
ActiveAlerts == getActiveAlerts(redis, alertsActive, redisUp, now)

\* Wall-clock time passes; the store drops the alerts that run out
MetricTick(d) ==
    /\ metricOps.ticks < MaxMetricTicks
    /\ metricOps' = [metricOps EXCEPT !.ticks = @ + 1]
    /\ now' = now + d
    /\ redis' = Live(redis, now')
    /\ UNCHANGED <<alertsActive, hourly, record, resolve, resolvedIds>>
    /\ UNCHANGED <<redisUp, outages, isOpen, save, revision, faulty>>
    /\ UNCHANGED <<ticks, gwVars, turnVars, recVars, cacheVars, filterVars, recorders, downloadVars, flagVars>>

(***************************************************************************)
(* recordRequest calls that run side by side (e.g. turns served at the     *)
(* same time), followed command by command through                        *)
(* updateAggregatedMetrics.  The store executes one command at a time; a   *)
(* command that fails throws into the catch block of recordRequest, which  *)
(* logs and returns.  The requests recorded here stay under the alert      *)
(* thresholds, so that checkAlerts only reads.                             *)
(***************************************************************************)
Recorders == 1..MaxRecorders

RequestMetrics(provider, tokensUsed, cost, duration, success) ==
    [provider |-> provider, tokensUsed |-> tokensUsed, cost |-> cost,
     duration |-> duration, success |-> success]

IdleRecorder ==
    [pc |-> "idle", metrics |-> RequestMetrics("openai", 0, 0, 0, TRUE),
     hour |-> 0, next |-> 0, caught |-> FALSE]

Command(op, field, amount) == [op |-> op, field |-> field, amount |-> amount]

countsError_Always(metrics) == TRUE

\* `if (!metrics.success)`
countsError(metrics) == ~metrics.success

\* the store commands of recordRequest in the order it awaits them: the
\* SETEX of the request metric (line 111), updateAggregatedMetrics
\* (lines 133-149), the two HGET of checkAlerts (lines 173, 188)
commandsOf(metrics) ==
    <<Command("setEx", "", 0),
      Command("hIncrBy", "total_requests", 1),
      Command("hIncrBy", "total_tokens", metrics.tokensUsed),
      Command("hIncrByFloat", "total_cost", metrics.cost),
      Command("hIncrBy", "total_duration", metrics.duration)>>
    \o (IF countsError(metrics) THEN <<Command("hIncrBy", "error_count", 1)>> ELSE <<>>)
    \o <<Command("hIncrBy", providerField(metrics.provider, "requests"), 1),
         Command("hIncrBy", providerField(metrics.provider, "tokens"), metrics.tokensUsed),
         Command("hIncrByFloat", providerField(metrics.provider, "cost"), metrics.cost),
         Command("expire", "", 0),
         Command("hGet", "total_tokens", 0),
         Command("hGet", "total_cost", 0)>>

\* recordRequest(...) up to its first store command: initialize() and the
\* metrics object
RecorderCall(c, metrics) ==
    /\ recorders[c].pc = "idle"
    /\ \A j \in Recorders : j < c => recorders[j].pc # "idle"
    /\ recorders' = [recorders EXCEPT ![c] =
                        IF redisUp
                        THEN [IdleRecorder EXCEPT !.pc = "awaiting", !.metrics = metrics,
                                                  !.next = 1]
                        ELSE [IdleRecorder EXCEPT !.pc = "done", !.metrics = metrics,
                                                  !.caught = TRUE]]
    /\ UNCHANGED <<alertsActive, hourly, record, resolve, resolvedIds, metricOps>>
    /\ UNCHANGED <<now, ticks, gwVars, ckVars, turnVars, recVars, cacheVars, filterVars, downloadVars, flagVars>>

\* the store executes the command the call is awaiting, or fails;
\* updateAggregatedMetrics takes the hour when the SETEX has returned
RecorderCommand(c) ==
    /\ recorders[c].pc = "awaiting"
    /\ LET r        == recorders[c]
           commands == commandsOf(r.metrics)
           command  == commands[r.next]
       IN IF redisUp
          THEN /\ hourly' = IF command.op \in {"hIncrBy", "hIncrByFloat"}
                            THEN hIncrBy(hourly, r.hour, command.field, command.amount)
                            ELSE hourly
               /\ recorders' = [recorders EXCEPT ![c] =
                                   IF r.next = Len(commands)
                                   THEN [r EXCEPT !.pc = "done"]
                                   ELSE [r EXCEPT !.next = @ + 1,
                                                  !.hour = IF command.op = "setEx"
                                                           THEN HourOf(now) ELSE @]]
          ELSE /\ recorders' = [recorders EXCEPT ![c] = [r EXCEPT !.pc = "done",
                                                                  !.caught = TRUE]]
               /\ UNCHANGED hourly
    /\ UNCHANGED <<alertsActive, record, resolve, resolvedIds, metricOps>>
    /\ UNCHANGED <<now, ticks, gwVars, ckVars, turnVars, recVars, cacheVars, filterVars, downloadVars, flagVars>>

\* new MetricsCollector() over a store without alerts
InitMetrics ==
    /\ alertsActive = <<>>
    /\ hourly = [h \in {} |-> NoBucket]
    /\ record = IdleRecord
    /\ resolve = IdleResolve
    /\ resolvedIds = {}
    /\ metricOps = [records |-> 0, resolves |-> 0, ticks |-> 0]
    /\ recorders = [c \in Recorders |-> IdleRecorder]

(***************************************************************************)
(* ModelRouter (services/modelRouter).  A task and its input are what the  *)
(* router reads of them: the keyword groups they mention, the length       *)
(* class of the input and of the context, and the number of complexity     *)
(* patterns the input matches.  A provider is named by its key; costs are  *)
(* in units of 10^-7 dollars per token.                                    *)
(***************************************************************************)
TaskKeywords == {"search", "write", "analyze", "summary"}

\* costPerToken of the descriptors (llmGateway.ts, initializeProviders)
costPerToken(key) ==
    CASE key = <<"openai", "gpt-4o">> -> 300
      [] key = <<"openai", "gpt-3.5-turbo">> -> 20
      [] key = <<"anthropic", "claude-3-5-sonnet-20240620">> -> 150
      [] key = <<"google", "gemini-1.5-pro">> -> 75

\* maxTokens of the descriptors
maxTokens(key) ==
    CASE key = <<"openai", "gpt-4o">> -> 30000
      [] key = <<"openai", "gpt-3.5-turbo">> -> 16000
      [] key = <<"anthropic", "claude-3-5-sonnet-20240620">> -> 200000
      [] key = <<"google", "gemini-1.5-pro">> -> 1000000

\* provider.model.includes(part)
modelIncludes(key, part) ==
    part \in (CASE key[2] = "gpt-4o" -> {"gpt-4"}
                [] key[2] = "gpt-3.5-turbo" -> {"gpt-3.5"}
                [] key[2] = "claude-3-5-sonnet-20240620" -> {"claude", "claude-3"}
                [] OTHER -> {})

\* identifyTaskType: the first keyword group found decides
identifyTaskType(mentions) ==
    IF "search" \in mentions THEN "search"
    ELSE IF "write" \in mentions THEN "writing"
    ELSE IF "analyze" \in mentions THEN "analysis"
    ELSE IF "summary" \in mentions THEN "summarization"
    ELSE "general"

\* estimateComplexity: inputScore is 1, 2 or 3 by the input length,
\* contextScore 0, 1 or 2 by the context length
estimateComplexity(inputScore, contextScore, taskType, patternMatches) ==
    LET complexityScore ==
            inputScore + contextScore
            + (CASE taskType = "search" -> 1
                 [] taskType = "summarization" -> 2
                 [] taskType = "writing" -> 3
                 [] taskType = "analysis" -> 4
                 [] OTHER -> 2)
            + patternMatches
    IN IF complexityScore <= 4 THEN "low"
       ELSE IF complexityScore <= 7 THEN "medium"
       ELSE "high"

\* generateRecommendation: the recommended model
recommendedModel(taskType, complexity) ==
    CASE taskType = "search" ->
            IF complexity = "low" THEN "gpt-3.5-turbo" ELSE "gpt-4o"
      [] taskType = "summarization" ->
            IF complexity = "low" THEN "gpt-3.5-turbo" ELSE "claude-3-5-sonnet-20240620"
      [] taskType = "writing" ->
            IF complexity = "high" THEN "gpt-4o" ELSE "claude-3-5-sonnet-20240620"
      [] taskType = "analysis" ->
            IF complexity = "high" THEN "gpt-4o" ELSE "claude-3-5-sonnet-20240620"
      [] OTHER ->
            IF complexity = "low" THEN "gpt-3.5-turbo" ELSE "gpt-4o"

\* analyzeTask
analyzeTask(mentions, inputScore, contextScore, patternMatches) ==
    LET taskType == identifyTaskType(mentions)
        complexity == estimateComplexity(inputScore, contextScore, taskType, patternMatches)
    IN [ taskType |-> taskType, complexity |-> complexity,
         recommendedModel |-> recommendedModel(taskType, complexity) ]

\* Array.prototype.find: the first element that passes, <<>> for undefined
find(list, Test(_)) ==
    IF SelectSeq(list, Test) = <<>> THEN <<>> ELSE <<Head(SelectSeq(list, Test))>>

\* a || b on what find returns
orElse(found, other) == IF found # <<>> THEN found[1] ELSE other

\* availableProviders.sort((a, b) => a.costPerToken - b.costPerToken)[0]:
\* the first of the cheapest
cheapest(list) ==
    list[CHOOSE i \in 1..Len(list) :
            \A j \in 1..Len(list) :
                \/ costPerToken(list[i]) < costPerToken(list[j])
                \/ costPerToken(list[i]) = costPerToken(list[j]) /\ i <= j]

NoProvider == "null"

preferredOf_None(available, analysis) == <<>>

\* availableProviders.find(p => p.model === analysis.recommendedModel)
preferredOf(available, analysis) ==
    find(available, LAMBDA k : k[2] = analysis.recommendedModel)

\* getBestProviderForTask on the list getAvailableProviders has returned
getBestProviderForTask(available, analysis) ==
    IF available = <<>> THEN NoProvider
    ELSE IF preferredOf(available, analysis) # <<>>
    THEN preferredOf(available, analysis)[1]
    ELSE CASE analysis.taskType = "search" -> cheapest(available)
           [] analysis.taskType = "analysis" ->
                orElse(find(available, LAMBDA k :
                           modelIncludes(k, "gpt-4") \/ modelIncludes(k, "claude-3")),
                       available[1])
           [] analysis.taskType = "writing" ->
                orElse(find(available, LAMBDA k :
                           modelIncludes(k, "gpt-4") \/ modelIncludes(k, "claude")),
                       available[1])
           [] analysis.taskType = "summarization" ->
                orElse(find(available, LAMBDA k :
                           modelIncludes(k, "claude") \/ modelIncludes(k, "gpt-3.5")),
                       available[1])
           [] OTHER -> available[1]

\* calculateSuitability
calculateSuitability(key, analysis) ==
    (IF modelIncludes(key, "gpt-4") THEN 5
     ELSE IF modelIncludes(key, "claude-3") THEN 4
     ELSE IF modelIncludes(key, "gpt-3.5") THEN 3
     ELSE 2)
    + (CASE analysis.taskType = "search" ->
                IF costPerToken(key) < 100 THEN 3 ELSE 0
         [] analysis.taskType = "analysis" ->
                IF modelIncludes(key, "gpt-4") \/ modelIncludes(key, "claude-3")
                THEN 3 ELSE 0
         [] analysis.taskType = "writing" ->
                (IF modelIncludes(key, "gpt-4") THEN 2 ELSE 0)
                + (IF modelIncludes(key, "claude") THEN 2 ELSE 0)
         [] OTHER -> 0)
    + (IF analysis.complexity = "high" /\ maxTokens(key) > 50000 THEN 2 ELSE 0)
    + (IF analysis.complexity = "low" /\ costPerToken(key) < 100 THEN 1 ELSE 0)

\* .sort((a, b) => suitabilityB - suitabilityA): stable, most suitable first
bySuitability(list, analysis) ==
    [ k \in 1..Len(list) |->
        list[CHOOSE i \in 1..Len(list) :
               Cardinality({ j \in 1..Len(list) :
                   \/ calculateSuitability(list[j], analysis)
                        > calculateSuitability(list[i], analysis)
                   \/ /\ calculateSuitability(list[j], analysis)
                           = calculateSuitability(list[i], analysis)
                      /\ j < i }) = k - 1] ]

\* getFallbackOptions on the list getAvailableProviders has returned
getFallbackOptions(available, selected, analysis) ==
    LET sorted == bySuitability(SelectSeq(available, LAMBDA k : k # selected), analysis)
    IN SubSeq(sorted, 1, IF Len(sorted) < 2 THEN Len(sorted) ELSE 2)

\* selectModel at time t: the selection, or null
selectModel(analysis, t) ==
    LET provider == getBestProviderForTask(getAvailableProviders(t).list, analysis)
    IN IF provider = NoProvider
       THEN [ isNull |-> TRUE, provider |-> <<>>, fallbackOptions |-> <<>> ]
       ELSE [ isNull |-> FALSE, provider |-> provider,
              fallbackOptions |->
                  getFallbackOptions(getAvailableProviders(t).list, provider, analysis) ]

\* selectModel(task, input, context) is called and returns: synchronous
\* code, with the re-enabling writes of getAvailableProviders.  The second
\* getAvailableProviders call, of getFallbackOptions, reads the table the
\* first has written and returns the same list.
SelectModelCall(mentions, inputScore, contextScore, patternMatches) ==
    /\ call = NoCall
    /\ LET analysis == analyzeTask(mentions, inputScore, contextScore, patternMatches)
       IN call' = [ fn |-> "selectModel", args |-> <<analysis>>,
                    result |-> <<selectModel(analysis, now)>> ]
    /\ healthStatus' = getAvailableProviders(now).health
    /\ UNCHANGED <<providers, lastHealthCheck, now, ticks, inv, gwHist>>
    /\ UNCHANGED <<templateLastIndex, ckVars, turnVars, recVars, cacheVars, metricVars, downloadVars, flagVars>>

\* the caller has taken the selection
SelectModelReturns ==
    /\ call.fn = "selectModel"
    /\ call' = NoCall
    /\ UNCHANGED <<templateLastIndex, now, ticks, gwVars, ckVars, turnVars, recVars, cacheVars, metricVars, downloadVars, flagVars>>

(***************************************************************************)
(* download.ts: the resources of a conversation.  RESOURCE_CACHE is the    *)
(* table of the module, url -> content; a content is known here by the     *)
(* time at which it was fetched from its URL (the text that the safety     *)
(* filter and the token validator make of the page keeps that time).       *)
(***************************************************************************)
Urls == {"u1", "u2"}

\* `RESOURCE_CACHE[url] || ""` of an URL without entry
NoContent == [kind |-> "none", fetchedAt |-> 0]

\* the entry "ERROR"
ErrorContent == [kind |-> "ERROR", fetchedAt |-> 0]

PageContent(t) == [kind |-> "page", fetchedAt |-> t]

\* getResource(url)
getResource(url) == RESOURCE_CACHE[url]

\* `!getResource(resource.url)` is false: the empty string is the only
\* content that is falsy
IsDownloaded(url) == getResource(url) # NoContent

IdleDownload == [pc |-> "idle", url |-> "none", content |-> NoContent]

resourceKey(url) == generateCacheKey("resource", Str(<<url>>))

\* download_node on a state with the resource: nothing to do for an URL
\* that has content in the table; downloadResource(url) otherwise, up to the
\* GET of getCachedResourceContent
DownloadNodeCall(url) ==
    /\ download.pc = "idle"
    /\ downloads.passes < MaxPasses
    /\ downloads' = [downloads EXCEPT !.passes = @ + 1]
    /\ download' = IF IsDownloaded(url) THEN IdleDownload
                   ELSE [IdleDownload EXCEPT !.pc = "get", !.url = url]
    /\ UNCHANGED <<RESOURCE_CACHE, now, ticks, gwVars, ckVars, turnVars, recVars, cacheVars, filterVars, metricVars, flagVars>>

\* getCachedResourceContent(url): the GET, the test of the age and, for an
\* entry that is too old, the DEL; a failure is caught and gives null.  A
\* content found goes into the table and downloadResource returns
DownloadGetCached ==
    /\ download.pc = "get"
    /\ LET key == resourceKey(download.url)
       IN IF CanInitialize("download") /\ redisUp
          THEN /\ cacheOpen' = [cacheOpen EXCEPT !["download"] = TRUE]
               /\ IF key \in DOMAIN redis /\ IsFresh(redis[key].value, "resource", now)
                  THEN /\ RESOURCE_CACHE' = [RESOURCE_CACHE EXCEPT ![download.url] =
                                                redis[key].value.response]
                       /\ download' = IdleDownload
                       /\ UNCHANGED redis
                  ELSE /\ redis' = del(redis, {key})
                       /\ download' = [download EXCEPT !.pc = "fetch"]
                       /\ UNCHANGED RESOURCE_CACHE
          ELSE /\ download' = [download EXCEPT !.pc = "fetch"]
               /\ UNCHANGED <<cacheOpen, redis, RESOURCE_CACHE>>
    /\ UNCHANGED <<redisUp, outages, isOpen, save, revision, faulty>>
    /\ UNCHANGED <<cacheOp, cacheSet, cacheOps, cacheTicks, lastSet, evicted>>
    /\ UNCHANGED <<downloads, now, ticks, gwVars, turnVars, recVars, filterVars, metricVars, flagVars>>

\* fetch(url) and the processing of the page; a fetch that fails or is
\* aborted, or a status that is not ok, throws into the catch block, which
\* stores "ERROR"
DownloadFetch(ok) ==
    /\ download.pc = "fetch"
    /\ IF ok
       THEN /\ download' = [download EXCEPT !.pc = "setEx", !.content = PageContent(now)]
            /\ UNCHANGED RESOURCE_CACHE
       ELSE /\ RESOURCE_CACHE' = [RESOURCE_CACHE EXCEPT ![download.url] = ErrorContent]
            /\ download' = IdleDownload
    /\ UNCHANGED <<downloads, now, ticks, gwVars, ckVars, turnVars, recVars, cacheVars, filterVars, metricVars, flagVars>>

\* cacheResourceContent(url, content): the SETEX for 6 hours, a failure
\* being caught; then the table gets the content
DownloadStore ==
    /\ download.pc = "setEx"
    /\ IF CanInitialize("download") /\ redisUp
       THEN /\ cacheOpen' = [cacheOpen EXCEPT !["download"] = TRUE]
            /\ redis' = setEx(redis, resourceKey(download.url), ttlOf("resource"),
                              [response |-> download.content, timestamp |-> now], now)
       ELSE UNCHANGED <<cacheOpen, redis>>
    /\ RESOURCE_CACHE' = [RESOURCE_CACHE EXCEPT ![download.url] = download.content]
    /\ download' = IdleDownload
    /\ UNCHANGED <<redisUp, outages, isOpen, save, revision, faulty>>
    /\ UNCHANGED <<cacheOp, cacheSet, cacheOps, cacheTicks, lastSet, evicted>>
    /\ UNCHANGED <<downloads, now, ticks, gwVars, turnVars, recVars, filterVars, metricVars, flagVars>>

\* a millisecond, or all but a millisecond of the six hours
DownloadSteps == {1, RESOURCE_FRESH_MS - 1}

\* Wall-clock time passes; the store drops the entries that run out
DownloadTick(d) ==
    /\ downloads.ticks < MaxDownloadTicks
    /\ downloads' = [downloads EXCEPT !.ticks = @ + 1]
    /\ now' = now + d
    /\ redis' = Live(redis, now')
    /\ UNCHANGED <<redisUp, outages, isOpen, save, revision, faulty>>
    /\ UNCHANGED <<RESOURCE_CACHE, download, ticks, gwVars, turnVars, recVars, cacheVars, filterVars, metricVars, flagVars>>

\* the module as loaded: `const RESOURCE_CACHE = {}`
InitDownload ==
    /\ RESOURCE_CACHE = [url \in Urls |-> NoContent]
    /\ download = IdleDownload
    /\ downloads = [passes |-> 0, ticks |-> 0]

(***************************************************************************)
(* FeatureFlags (features/featureFlags) as model.ts uses it: getModel      *)
(* awaits initializeModelServices, which constructs the object on the      *)
(* first call and awaits its initialize(), and then asks isEnabled, which  *)
(* goes through evaluateFlag and ensureCacheUpdated.  The activation       *)
(* holds the method whose body is running and the number of initialize()   *)
(* calls that are pending one inside the other, counted up to MaxDepth     *)
(* ("MaxDepth or more").                                                   *)
(***************************************************************************)
IdleFlags ==
    [pc |-> "idle", entry |-> "none", depth |-> 0, isOpen |-> FALSE,
     created |-> FALSE, calls |-> 0, ticks |-> 0]

\* `now - this.lastCacheUpdate > this.CACHE_TTL * 1000`; lastCacheUpdate
\* is written by refreshCache after its hGetAll only
IsCacheStale(t) == t - lastCacheUpdate > CACHE_TTL * 1000

\* one more initialize() pending
deeper(depth) == IF depth < MaxDepth THEN depth + 1 ELSE MaxDepth

\* getModel(state, task, input) up to the first await that reaches the
\* store: initializeModelServices with `new FeatureFlags()` and
\* `await featureFlags.initialize()` when the global is null; isEnabled,
\* evaluateFlag, ensureCacheUpdated and its refreshCache otherwise
GetModelCall ==
    /\ flags.pc = "idle"
    /\ flags.calls < MaxGetModels
    /\ flags' =
          IF ~flags.created
          THEN [flags EXCEPT !.calls = @ + 1, !.created = TRUE, !.pc = "initialize",
                             !.entry = "initializeModelServices", !.depth = 1]
          ELSE IF IsCacheStale(now)
          THEN [flags EXCEPT !.calls = @ + 1, !.pc = "refreshCache",
                             !.entry = "isEnabled", !.depth = 0]
          ELSE [flags EXCEPT !.calls = @ + 1, !.pc = "returned", !.entry = "isEnabled"]
    /\ UNCHANGED <<now, ticks, gwVars, ckVars, turnVars, recVars, cacheVars, filterVars, metricVars, downloadVars>>

\* the body of initialize(): connect unless the client is open, then
\* `await this.refreshCache()`.  A connect that fails throws: out of
\* initializeModelServices when this is its call, into the catch block of
\* the refreshCache that made the call otherwise, which logs and returns.
\* Only the first initialize() of a chain finds the client closed.
FlagsInitialize ==
    /\ flags.pc = "initialize"
    /\ flags' =
          IF flags.isOpen \/ redisUp
          THEN [flags EXCEPT !.isOpen = TRUE, !.pc = "refreshCache"]
          ELSE IF flags.entry = "initializeModelServices" /\ flags.depth = 1
          THEN [flags EXCEPT !.pc = "rejected", !.depth = 0]
          ELSE [flags EXCEPT !.pc = "returned", !.depth = 0]
    /\ UNCHANGED <<now, ticks, gwVars, ckVars, turnVars, recVars, cacheVars, filterVars, metricVars, downloadVars>>

\* the body of refreshCache() up to its first await:
\* `try { await this.initialize();`
FlagsRefreshCache ==
    /\ flags.pc = "refreshCache"
    /\ flags' = [flags EXCEPT !.pc = "initialize", !.depth = deeper(@)]
    /\ UNCHANGED <<now, ticks, gwVars, ckVars, turnVars, recVars, cacheVars, filterVars, metricVars, downloadVars>>

\* getModel goes on, or its caller catches the error
GetModelReturns ==
    /\ flags.pc \in {"returned", "rejected"}
    /\ flags' = [flags EXCEPT !.pc = "idle", !.entry = "none"]
    /\ UNCHANGED <<now, ticks, gwVars, ckVars, turnVars, recVars, cacheVars, filterVars, metricVars, downloadVars>>

\* Wall-clock time passes: more than the five minutes of the local cache
FlagsTick ==
    /\ flags.ticks < MaxFlagTicks
    /\ flags' = [flags EXCEPT !.ticks = @ + 1]
    /\ now' = now + CACHE_TTL * 1000 + 1
    /\ UNCHANGED <<ticks, gwVars, ckVars, turnVars, recVars, cacheVars, filterVars, metricVars, downloadVars>>

\* model.ts as loaded: `let featureFlags = null`
InitFlags == flags = IdleFlags

InitMore ==
    InitRecover /\ InitCache /\ InitCall /\ InitFilter /\ InitMetrics /\ InitDownload /\ InitFlags

(***************************************************************************)
(* TokenValidator (utils/tokenValidator.ts).  A text is a sequence of      *)
(* pieces; a piece is a run of words, a sentence terminator, a blank or a  *)
(* paragraph break, with the number of tokens the encoder counts for it.   *)
(* encode() belongs to the gpt-3-encoder package; its count is taken as    *)
(* the sum over the pieces.                                                *)
(***************************************************************************)
Piece(text, tokens) == [text |-> text, tokens |-> tokens]

\* n words with no terminator and no line break among them
Run(n)  == Piece("words", n)
Stop    == Piece(".", 1)
Query   == Piece("?", 1)
Blank   == Piece(" ", 1)
Newline == Piece("\n", 1)
Break   == Piece("\n\n", 1)

IsTerminator(piece) == piece \in {Stop, Query}

IsWhitespace(piece) == piece \in {Blank, Newline, Break}

RECURSIVE estimateTokens(_)
estimateTokens(text) ==
    IF text = <<>> THEN 0 ELSE Head(text).tokens + estimateTokens(Tail(text))

\* Array.prototype.join
RECURSIVE join(_, _)
join(strings, separator) ==
    IF strings = <<>> THEN <<>>
    ELSE IF Len(strings) = 1 THEN strings[1]
    ELSE strings[1] \o separator \o join(Tail(strings), separator)

\* String.prototype.split: the parts between the pieces that `IsSeparator`
\* holds of, an empty part between two separators included
RECURSIVE splitAt(_, _, _)
splitAt(text, IsSeparator(_), part) ==
    IF text = <<>> THEN <<part>>
    ELSE IF IsSeparator(Head(text))
         THEN <<part>> \o splitAt(Tail(text), IsSeparator, <<>>)
         ELSE splitAt(Tail(text), IsSeparator, Append(part, Head(text)))

IsBreak(piece) == piece = Break

\* content.split('\n\n')
paragraphsOf(content) == splitAt(content, IsBreak, <<>>)

\* String.prototype.trim
RECURSIVE trimLeft(_)
trimLeft(text) ==
    IF text # <<>> /\ IsWhitespace(Head(text)) THEN trimLeft(Tail(text)) ELSE text

RECURSIVE trimRight(_)
trimRight(text) ==
    IF text # <<>> /\ IsWhitespace(text[Len(text)])
    THEN trimRight(SubSeq(text, 1, Len(text) - 1))
    ELSE text

trimmed(text) == trimRight(trimLeft(text))

\* paragraph.split(/[.!?]+/).filter(s => s.trim()): a run of terminators
\* separates as one, so the empty parts inside a run never show
sentencesOf(paragraph) ==
    SelectSeq(splitAt(paragraph, IsTerminator, <<>>), LAMBDA s : trimmed(s) # <<>>)

availableTokens_NoOverlap(context) ==
    MAX_TOKENS - estimateTokens(join(context, <<Newline>>))

availableTokens(context) ==
    MAX_TOKENS - estimateTokens(join(context, <<Newline>>)) - OVERLAP_TOKENS

\* the state of the loops of intelligentChunk
Chunking(chunks, currentChunk, currentTokens) ==
    [chunks |-> chunks, currentChunk |-> currentChunk, currentTokens |-> currentTokens]

\* one round of the loop over the sentences (lines 82-95)
addSentence(c, sentence, available) ==
    IF c.currentTokens + estimateTokens(sentence) > available
    THEN Chunking(IF c.currentChunk # <<>>
                  THEN Append(c.chunks, trimmed(c.currentChunk))
                  ELSE c.chunks,
                  sentence \o <<Stop>>,
                  estimateTokens(sentence))
    ELSE Chunking(c.chunks,
                  c.currentChunk \o (IF c.currentChunk # <<>> THEN <<Blank>> ELSE <<>>)
                      \o sentence \o <<Stop>>,
                  c.currentTokens + estimateTokens(sentence))

RECURSIVE addSentences(_, _, _)
addSentences(c, sentences, available) ==
    IF sentences = <<>> THEN c
    ELSE addSentences(addSentence(c, Head(sentences), available), Tail(sentences), available)

\* one round of the loop over the paragraphs (lines 69-107)
addParagraph(c, paragraph, available) ==
    IF estimateTokens(paragraph) > available
    THEN addSentences(IF c.currentChunk # <<>>
                      THEN Chunking(Append(c.chunks, trimmed(c.currentChunk)), <<>>, 0)
                      ELSE c,
                      sentencesOf(paragraph), available)
    ELSE IF c.currentTokens + estimateTokens(paragraph) > available
         THEN Chunking(Append(c.chunks, trimmed(c.currentChunk)),
                       paragraph,
                       estimateTokens(paragraph))
         ELSE Chunking(c.chunks,
                       c.currentChunk \o (IF c.currentChunk # <<>> THEN <<Break>> ELSE <<>>)
                           \o paragraph,
                       c.currentTokens + estimateTokens(paragraph))

RECURSIVE addParagraphs(_, _, _)
addParagraphs(c, paragraphs, available) ==
    IF paragraphs = <<>> THEN c
    ELSE addParagraphs(addParagraph(c, Head(paragraphs), available), Tail(paragraphs), available)

ContextTooLarge == "Context too large, cannot chunk effectively"

Thrown(message) ==
    [threw |-> message, isValid |-> FALSE, tokenCount |-> 0, chunks |-> <<>>, warnings |-> <<>>]

Returned(isValid, tokenCount, chunks, warnings) ==
    [threw |-> "", isValid |-> isValid, tokenCount |-> tokenCount, chunks |-> chunks,
     warnings |-> warnings]

\* the chunks, or the message of the error thrown
intelligentChunk(content, context) ==
    IF availableTokens(context) <= 0 THEN [threw |-> ContextTooLarge, chunks |-> <<>>]
    ELSE LET c == addParagraphs(Chunking(<<>>, <<>>, 0), paragraphsOf(content),
                                availableTokens(context))
             chunks == IF trimmed(c.currentChunk) # <<>>
                       THEN Append(c.chunks, trimmed(c.currentChunk))
                       ELSE c.chunks
         IN  [threw |-> "", chunks |-> IF Len(chunks) > 0 THEN chunks ELSE <<content>>]

WithinBudget_Strict(totalTokens) == totalTokens < MAX_TOKENS

WithinBudget(totalTokens) == totalTokens <= MAX_TOKENS

fullTextOf(content, context) == content \o <<Newline>> \o join(context, <<Newline>>)

validateAndChunk(content, context) ==
    LET totalTokens == estimateTokens(fullTextOf(content, context))
    IN  IF WithinBudget(totalTokens)
        THEN Returned(TRUE, totalTokens, <<content>>, <<>>)
        ELSE LET chunked == intelligentChunk(content, context)
             IN  IF chunked.threw # "" THEN Thrown(chunked.threw)
                 ELSE Returned(FALSE, totalTokens, chunked.chunks,
                               <<<<"exceeds", MAX_TOKENS, totalTokens>>>>)

CallValidateAndChunk(content, context) ==
    /\ call = NoCall
    /\ call' = [fn |-> "validateAndChunk", args |-> <<content, context>>, result |-> <<>>]
    /\ UNCHANGED <<templateLastIndex, now, ticks, gwVars, ckVars, turnVars, recVars, cacheVars, metricVars, downloadVars, flagVars>>

ValidateAndChunkReturns ==
    /\ call.fn = "validateAndChunk"
    /\ call.result = <<>>
    /\ call' = [call EXCEPT !.result = <<validateAndChunk(call.args[1], call.args[2])>>]
    /\ UNCHANGED <<templateLastIndex, now, ticks, gwVars, ckVars, turnVars, recVars, cacheVars, metricVars, downloadVars, flagVars>>

\* the caller takes the result or catches the error
TokenReturns ==
    /\ call.fn = "validateAndChunk"
    /\ call.result # <<>>
    /\ call' = NoCall
    /\ UNCHANGED <<templateLastIndex, now, ticks, gwVars, ckVars, turnVars, recVars, cacheVars, metricVars, downloadVars, flagVars>>

(***************************************************************************)
(* Steps of chat_node around the model call (chat.ts): the messages it     *)
(* assembles for the request, and what it makes of the answer.  A message  *)
(* is its content, a text.                                                 *)
(***************************************************************************)
\* `Note: Content was chunked due to size. Processing chunk 1 of ${n}.`
ChunkNote == <<Piece("note", 17)>>

\* the estimate of TokenValidator for the contents of a message list, as
\* chat_node joins them
tokensOf(messages) == estimateTokens(join(messages, <<Newline>>))

\* lines 132-152: [system prompt, ...state.messages], replaced when the
\* validation reports it over the budget by [system prompt, note,
\* ...state.messages.slice(-3)]
assembleMessages(systemPrompt, stateMessages) ==
    LET messages == <<systemPrompt>> \o stateMessages
        tokenValidation == validateAndChunk(join(messages, <<Newline>>), <<>>)
    IN IF ~tokenValidation.isValid
       THEN <<systemPrompt, ChunkNote>> \o sliceLast(stateMessages, 3)
       ELSE messages

CallAssembleMessages(systemPrompt, stateMessages) ==
    /\ call = NoCall
    /\ call' = [fn |-> "assembleMessages", args |-> <<systemPrompt, stateMessages>>,
                result |-> <<assembleMessages(systemPrompt, stateMessages)>>]
    /\ UNCHANGED <<templateLastIndex, now, ticks, gwVars, ckVars, turnVars, recVars, cacheVars, metricVars, downloadVars, flagVars>>

Undefined == "undefined"

\* `outputSafety.isValid`, outputSafety being the string validateOutput
\* has returned: a string has no such property
isValidOf(outputSafety) == Undefined

IsRejected_Never(outputSafety) == FALSE

\* `!outputSafety.isValid`
IsRejected(outputSafety) == isValidOf(outputSafety) = Undefined

OutputReplacement ==
    <<Frag("I apologize, but I need to provide a different response. Let me try again with a safer approach.", 98)>>

ReportReplacement ==
    <<Frag("I need to revise the report to ensure it meets our content guidelines. Let me create a new version.", 99)>>

NoTool == "none"

\* the answer of the model: its content, and the name and the text
\* argument of its first tool call
AIMessage(content, tool, argument) ==
    [content |-> content, tool |-> tool, argument |-> argument]

\* lines 188-250: what chat_node goes on with after the model call
resultOf(aiMessage) ==
    IF aiMessage.content # <<>> /\ IsRejected(validateOutput(aiMessage.content))
    THEN [replaced |-> TRUE, messages |-> <<OutputReplacement>>, report |-> <<>>]
    ELSE IF aiMessage.tool = "WriteReport"
    THEN IF IsRejected(validateOutput(aiMessage.argument))
         THEN [replaced |-> TRUE, messages |-> <<ReportReplacement>>, report |-> <<>>]
         ELSE [replaced |-> FALSE,
               messages |-> <<aiMessage.content, <<Frag("Report written.", 15)>> >>,
               report |-> aiMessage.argument]
    ELSE IF aiMessage.tool = "WriteResearchQuestion"
    THEN [replaced |-> FALSE,
          messages |-> <<aiMessage.content, <<Frag("Research question written.", 26)>> >>,
          report |-> <<>>]
    ELSE [replaced |-> FALSE, messages |-> <<aiMessage.content>>, report |-> <<>>]

CallResultOf(aiMessage) ==
    /\ call = NoCall
    /\ call' = [fn |-> "resultOf", args |-> <<aiMessage>>,
                result |-> <<resultOf(aiMessage)>>]
    /\ UNCHANGED <<templateLastIndex, now, ticks, gwVars, ckVars, turnVars, recVars, cacheVars, metricVars, downloadVars, flagVars>>

\* chat_node goes on from the step
ChatStepReturns ==
    /\ call.fn \in {"assembleMessages", "resultOf"}
    /\ call' = NoCall
    /\ UNCHANGED <<templateLastIndex, now, ticks, gwVars, ckVars, turnVars, recVars, cacheVars, metricVars, downloadVars, flagVars>>

(***************************************************************************)
(* A turn: chat_node (chat.ts) or executeWorkflowWithRecovery (agent.ts).  *)
(* A call of a method that the class of the receiver does not define       *)
(* throws a TypeError at the call expression.                              *)
(***************************************************************************)
ConversationManagerMethods ==
    {"initialize", "saveCheckpoint", "recoverFromError", "getLastCheckpoint",
     "createFreshState", "getConversationHistory", "cleanupOldCheckpoints",
     "extractAvailableTools", "estimateStateTokens", "logRecovery",
     "getRecoveryStats", "close"}

MetricsCollectorMethods ==
    {"initialize", "recordRequest", "updateAggregatedMetrics", "checkAlerts",
     "storeAlert", "getSystemMetrics", "getRecentResponseTimes",
     "getActiveAlerts", "resolveAlert", "getProviderComparison",
     "exportMetrics", "estimateTokens", "cleanupMetrics", "close"}

Invoke(methods, m) == IF m \in methods THEN "called" ELSE "TypeError"

\* chat_node passes { messages, model } as the content
ChatCacheContent == Obj

TurnFns == {"chat_node", "executeWorkflowWithRecovery"}

\* `thread-${Date.now()}`
FreshThread == "thread-now"

\* input: the content of the last message of the state, when the turn was
\* started with one (<<>>: the verdict of the filter is given instead)
IdleTurn ==
    [pc |-> "idle", fn |-> "none", threadId |-> NoThread, inputValid |-> TRUE,
     input |-> <<>>,
     error |-> "none", recoverable |-> FALSE, outcome |-> "none", startedAt |-> 0]

\* the turn's try block throws: control goes to its catch block
Throw(rec, error) ==
    [rec EXCEPT !.pc = "catch", !.error = error,
                !.recoverable = (getLastCheckpoint(rec.threadId) # <<>>)]

\* the workflow engine (or a caller) starts a turn
StartTurn(fn, threadId, inputValid) ==
    /\ turn.pc = "idle"
    /\ turns < MaxTurns
    /\ turn' = [IdleTurn EXCEPT !.pc = "checkpoint", !.fn = fn, !.threadId = threadId,
                                !.inputValid = inputValid, !.startedAt = now]
    /\ turns' = turns + 1
    /\ UNCHANGED <<now, ticks, gwVars, ckVars, moreVars>>

\* chat_node: the checkpoint before processing
ChatNodeCheckpoint ==
    /\ turn.fn = "chat_node"
    /\ turn.pc = "checkpoint"
    /\ IF turn.threadId # NoThread
       THEN /\ Invoke(ConversationManagerMethods, "createCheckpoint") = "TypeError"
            /\ turn' = Throw(turn, "conversationManager.createCheckpoint is not a function")
       ELSE turn' = [turn EXCEPT !.pc = "safety"]
    /\ UNCHANGED <<turns, now, ticks, gwVars, ckVars, moreVars>>

\* a turn that goes on after the safety check whatever the verdict
Refuse_GoOn(rec) == [rec EXCEPT !.pc = "cache"]

\* `if (!safetyResult.isValid) return { messages: [refusal] }`
Refuse(rec) == [rec EXCEPT !.pc = "done", !.outcome = "refusal"]

\* chat_node: the safety check of the last message
ChatNodeSafety ==
    /\ turn.fn = "chat_node"
    /\ turn.pc = "safety"
    /\ turn' = IF ~turn.inputValid
               THEN Refuse(turn)
               ELSE [turn EXCEPT !.pc = "cache"]
    /\ UNCHANGED <<turns, now, ticks, gwVars, ckVars, moreVars>>

\* chat_node is called with a state whose last message has this content
StartChatNode(threadId, input) ==
    /\ turn.pc = "idle"
    /\ turns < MaxTurns
    /\ input # <<>>
    /\ turn' = [IdleTurn EXCEPT !.pc = "checkpoint", !.fn = "chat_node",
                                !.threadId = threadId, !.input = input,
                                !.startedAt = now]
    /\ turns' = turns + 1
    /\ UNCHANGED <<now, ticks, gwVars, ckVars, moreVars>>

\* `if (!safetyResult.isValid) return { messages: [refusal] }`
IsRefused(safetyResult) == ~safetyResult.isValid

\* chat_node: safetyFilter.validateInput on the content of the last message
\* and the test of its verdict
ChatNodeValidateInput ==
    /\ turn.fn = "chat_node"
    /\ turn.pc = "safety"
    /\ turn.input # <<>>
    /\ turn' = IF IsRefused(validateInput(turn.input, templateLastIndex))
               THEN Refuse(turn)
               ELSE [turn EXCEPT !.pc = "cache"]
    /\ templateLastIndex' = TemplateExec(turn.input, templateLastIndex).lastIndex
    /\ UNCHANGED <<call, turns, now, ticks, gwVars, ckVars, recVars, cacheVars, metricVars, downloadVars, flagVars>>

\* chat_node: token validation, then the cache key of the request
ChatNodeCacheKey ==
    /\ turn.fn = "chat_node"
    /\ turn.pc = "cache"
    /\ generateCacheKey("chat_response", ChatCacheContent) = TypeError
    /\ turn' = Throw(turn, "content.toLowerCase is not a function")
    /\ UNCHANGED <<turns, now, ticks, gwVars, ckVars, moreVars>>

\* chat_node: the catch block.  The recovery call sits in a try of its own;
\* the call of recordError does not, and its TypeError leaves the function.
ChatNodeCatch ==
    /\ turn.fn = "chat_node"
    /\ turn.pc = "catch"
    /\ turn.threadId # NoThread
         => Invoke(ConversationManagerMethods, "recoverFromCheckpoint") = "TypeError"
    /\ Invoke(MetricsCollectorMethods, "recordError") = "TypeError"
    /\ turn' = [turn EXCEPT !.pc = "done", !.outcome = "exception",
                            !.error = "metricsCollector.recordError is not a function"]
    /\ UNCHANGED <<turns, now, ticks, gwVars, ckVars, moreVars>>

\* executeWorkflowWithRecovery: the thread identifier and the initial checkpoint
WorkflowCheckpoint ==
    /\ turn.fn = "executeWorkflowWithRecovery"
    /\ turn.pc = "checkpoint"
    /\ Invoke(ConversationManagerMethods, "createCheckpoint") = "TypeError"
    /\ LET rec == [turn EXCEPT !.threadId = IF turn.threadId = NoThread
                                            THEN FreshThread ELSE turn.threadId]
       IN turn' = Throw(rec, "conversationManager.createCheckpoint is not a function")
    /\ UNCHANGED <<turns, now, ticks, gwVars, ckVars, moreVars>>

\* executeWorkflowWithRecovery: the catch block starts with recordError
WorkflowCatch ==
    /\ turn.fn = "executeWorkflowWithRecovery"
    /\ turn.pc = "catch"
    /\ Invoke(MetricsCollectorMethods, "recordError") = "TypeError"
    /\ turn' = [turn EXCEPT !.pc = "done", !.outcome = "exception",
                            !.error = "metricsCollector.recordError is not a function"]
    /\ UNCHANGED <<turns, now, ticks, gwVars, ckVars, moreVars>>

\* the caller has consumed the settled promise of the turn
TurnReturns ==
    /\ turn.pc = "done"
    /\ turn' = IdleTurn
    /\ UNCHANGED <<turns, now, ticks, gwVars, ckVars, moreVars>>

InitTurn ==
    /\ turn = IdleTurn
    /\ turns = 0

\* the gateway as constructed with every provider key set
InitFullGateway ==
    /\ providers = initializeProviders(EnvKeys)
    /\ healthStatus = [k \in ConfiguredKeys |-> TRUE]
    /\ lastHealthCheck = [k \in ConfiguredKeys |-> 0]
    /\ now = 1
    /\ ticks = 0
    /\ inv = [i \in Inv |-> IdleInvocation]
    /\ failedAt = [k \in ConfiguredKeys |-> 0]
    /\ okSinceFail = [k \in ConfiguredKeys |-> FALSE]
    /\ failover = [k \in ConfiguredKeys |-> FALSE]
    /\ started = 0

(***************************************************************************)
(* Retention: many checkpoints of one thread.  The store is shared and     *)
(* outlives the process: it may hold a checkpoint of another thread that   *)
(* an earlier process wrote.  Retention does not look at the snapshot, so  *)
(* every call passes the same one.                                         *)
(***************************************************************************)
RetentionThread == "t1"

OtherThread == "t2"

Snapshot == [messages |-> <<>>]

EarlierStore ==
    setEx(setEx(EmptyStore, checkpointKey(OtherThread, 0), CHECKPOINT_TTL,
                [state |-> Snapshot, context |-> contextOf(Snapshot), timestamp |-> 0], 0),
          latestKey(OtherThread), CHECKPOINT_TTL, checkpointKey(OtherThread, 0), 0)

CheckpointInit ==
    /\ InitFullGateway
    /\ redis \in {EmptyStore, EarlierStore}
    /\ InitManager
    /\ InitTurn
    /\ InitMore

CheckpointNext ==
    \/ \E s \in Savers : SaveCheckpointCall(s, RetentionThread, Snapshot)
    \/ \E s \in Savers : SaveLatestPointer(s)
    \/ \E s \in Savers : CleanupListKeys(s)
    \/ \E s \in Savers : CleanupDelete(s)
    \/ StoreGoesDown
    \/ StoreComesBack
    \/ \E d \in ExpirySteps : StoreTick(d)

CheckpointSpec == CheckpointInit /\ [][CheckpointNext]_vars

(***************************************************************************)
(* Turns next to checkpoint traffic on two threads.  A thread gets at most *)
(* MaxTurnSaves checkpoints here, written one call after the other, so     *)
(* cleanup never has anything to delete; the snapshot passed is the        *)
(* revision of the thread's conversation.                                  *)
(***************************************************************************)
TurnInit == InitFullGateway /\ InitStore /\ InitTurn /\ InitMore

TurnNext ==
    \/ \E fn \in TurnFns, threadId \in Threads \cup {NoThread}, inputValid \in BOOLEAN :
          StartTurn(fn, threadId, inputValid)
    \/ ChatNodeCheckpoint
    \/ ChatNodeSafety
    \/ ChatNodeCacheKey
    \/ ChatNodeCatch
    \/ WorkflowCheckpoint
    \/ WorkflowCatch
    \/ TurnReturns
    \/ \E threadId \in Threads :
          /\ revision[threadId] < MaxTurnSaves
          /\ SaveCheckpointCall(1, threadId, [revision |-> revision[threadId] + 1])
    \/ \E s \in Savers : SaveLatestPointer(s)
    \/ \E s \in Savers : CleanupListKeys(s)
    \/ StoreGoesDown
    \/ StoreComesBack
    \/ \E d \in ExpirySteps : StoreTick(d)

TurnSpec == TurnInit /\ [][TurnNext]_vars

(***************************************************************************)
(* Recovery: checkpoints of one thread with message histories shorter      *)
(* than, as long as and longer than the context window, and calls of       *)
(* recoverFromError while the checkpoints are written.  With at most       *)
(* MaxRecoverySaves checkpoints the cleanup never has a key to delete.     *)
(***************************************************************************)
HistoryLengths == {0, CONTEXT_WINDOW, MaxHistory}

\* a message history of n messages, each named by its position
History(n) == [i \in 1..n |-> i]

RecoveryInit == InitFullGateway /\ InitStore /\ InitTurn /\ InitMore

RecoveryNext ==
    \/ \E n \in HistoryLengths :
          /\ revision[RetentionThread] < MaxRecoverySaves
          /\ SaveCheckpointCall(1, RetentionThread,
                                [messages |-> History(n),
                                 revision |-> revision[RetentionThread] + 1])
    \/ SaveLatestPointer(1)
    \/ CleanupListKeys(1)
    \/ StoreGoesDown
    \/ StoreComesBack
    \/ \E d \in ExpirySteps : StoreTick(d)
    \/ \E e \in Errors : RecoverFromErrorCall(RetentionThread, e)
    \/ RecoverGetCheckpoint
    \/ RecoverLogPush
    \/ RecoverLogTrim
    \/ RecoverReturns

RecoverySpec == RecoveryInit /\ [][RecoveryNext]_vars

(***************************************************************************)
(* Cache: writes and reads of the three categories by two components,      *)
(* for requests that differ in case and in white space at the ends, while  *)
(* time passes and the store may fail.                                     *)
(***************************************************************************)
Model == <<"a">>

Requests == { <<"a">>, <<" ", "A">>, <<"b">> }

\* the response that the n-th write stores
Response(n) == <<"response", n>>

\* the component that fills the cache, and the one that reads it
Writer == "download"

Reader == "chat"

\* the string a category derives its key from
contentOf(type, request) ==
    IF type = "llm" THEN llmContent(Model, request) ELSE Str(request)

CacheInit == InitFullGateway /\ InitStore /\ InitTurn /\ InitMore

CacheNext ==
    \/ \E type \in Categories, request \in Requests :
          CacheSetCall(Writer, type, contentOf(type, request), Response(cacheOps.sets + 1))
    \/ CacheSetArrives
    \/ \E type \in Categories, request \in Requests :
          CacheGetCall(Reader, type, contentOf(type, request))
    \/ CacheDelete
    \/ CacheGetReturns
    \/ StoreGoesDown
    \/ StoreComesBack
    \/ \E d \in CacheSteps : CacheTick(d)

CacheSpec == CacheInit /\ [][CacheNext]_vars

(***************************************************************************)
(* Download passes over two URLs, with the clock moving and the store      *)
(* failing and coming back.                                                *)
(***************************************************************************)
DownloadNext ==
    \/ \E url \in Urls : DownloadNodeCall(url)
    \/ DownloadGetCached
    \/ \E ok \in BOOLEAN : DownloadFetch(ok)
    \/ DownloadStore
    \/ \E d \in DownloadSteps : DownloadTick(d)
    \/ StoreGoesDown
    \/ StoreComesBack

DownloadSpec == CacheInit /\ [][DownloadNext]_vars

(***************************************************************************)
(* getModel calls one after the other, with the store failing and coming   *)
(* back and the clock moving.  The event loop runs every continuation      *)
(* that is ready, and a store that went down comes back.                   *)
(***************************************************************************)
FlagsNext ==
    \/ GetModelCall
    \/ FlagsInitialize
    \/ FlagsRefreshCache
    \/ GetModelReturns
    \/ FlagsTick
    \/ StoreGoesDown
    \/ StoreComesBack

FlagsSpec ==
    /\ CacheInit
    /\ [][FlagsNext]_vars
    /\ WF_vars(FlagsInitialize)
    /\ WF_vars(FlagsRefreshCache)
    /\ WF_vars(GetModelReturns)
    /\ WF_vars(StoreComesBack)

(***************************************************************************)
(* Cache keys: generateCacheKey applied to two requests of one category.   *)
(***************************************************************************)
RECURSIVE Strings(_)
Strings(n) ==
    IF n = 0 THEN {<<>>}
    ELSE Strings(n - 1) \cup { Append(x, ch) : x \in Strings(n - 1), ch \in Chars \ {":"} }

KeyInit ==
    /\ InitFullGateway /\ InitStore /\ InitTurn /\ InitRecover /\ InitCache /\ InitFilter /\ InitMetrics /\ InitDownload /\ InitFlags
    /\ \E type \in Categories, x \in Strings(MaxContentLen), y \in Strings(MaxContentLen) :
          call = [fn |-> "generateCacheKey", args |-> <<type, x, y>>, result |-> <<>>]

\* the keys of the two requests
GenerateKeys ==
    /\ call.fn = "generateCacheKey"
    /\ call.result = <<>>
    /\ call' = [call EXCEPT !.result =
                   <<generateCacheKey(call.args[1], contentOf(call.args[1], call.args[2])),
                     generateCacheKey(call.args[1], contentOf(call.args[1], call.args[3]))>>]
    /\ UNCHANGED <<templateLastIndex, now, ticks, gwVars, ckVars, turnVars, recVars, cacheVars, metricVars, downloadVars, flagVars>>

KeyNext == GenerateKeys

KeySpec == KeyInit /\ [][KeyNext]_vars

(***************************************************************************)
(* Turns over a cache.  The store outlives the process: it may hold an     *)
(* LLM entry for the request of the turns, written by an earlier process.  *)
(***************************************************************************)
TurnPrompt == <<"a">>

\* the key of the LLM entry for the request of the turns
RequestKey == generateCacheKey("llm", llmContent(Model, TurnPrompt))

CachedStore ==
    setEx(EmptyStore, RequestKey, ttlOf("llm"),
          [response |-> Response(0), timestamp |-> 0], 0)

CachedTurnInit ==
    /\ InitFullGateway /\ InitManager /\ InitTurn /\ InitRecover /\ InitCall /\ InitFilter /\ InitMetrics /\ InitDownload /\ InitFlags
    /\ redis \in {EmptyStore, CachedStore}
    /\ lastSet = redis
    /\ cacheOp = IdleGet
    /\ cacheSet = IdleSet
    /\ cacheOpen = [c \in Components |-> FALSE]
    /\ cacheOps = [sets |-> 0, gets |-> 0]
    /\ cacheTicks = 0
    /\ evicted = {}

CachedTurnNext ==
    \/ \E fn \in TurnFns, threadId \in Threads \cup {NoThread}, inputValid \in BOOLEAN :
          StartTurn(fn, threadId, inputValid)
    \/ ChatNodeCheckpoint
    \/ ChatNodeSafety
    \/ ChatNodeCacheKey
    \/ ChatNodeCatch
    \/ WorkflowCheckpoint
    \/ WorkflowCatch
    \/ TurnReturns
    \/ StoreGoesDown
    \/ StoreComesBack
    \/ \E d \in CacheSteps : CacheTick(d)

CachedTurnSpec == CachedTurnInit /\ [][CachedTurnNext]_vars

(***************************************************************************)
(* chat_node turns on inputs that the safety filter reads: one of each     *)
(* kind of issue, and texts without an issue.                              *)
(***************************************************************************)
TurnInputs ==
    { <<Plain>>, <<SSN>>, <<Base64>>, <<UrlEnc>>, <<Hate>>, <<Kill>>, <<Ignore>>,
      <<Role>>, <<Template>>, <<Plain, Template>>, <<Filler(MAX_INPUT_LENGTH), Plain>> }

SafeTurnNext ==
    \/ \E threadId \in Threads \cup {NoThread}, input \in TurnInputs :
          StartChatNode(threadId, input)
    \/ ChatNodeCheckpoint
    \/ ChatNodeValidateInput
    \/ ChatNodeCacheKey
    \/ ChatNodeCatch
    \/ TurnReturns

SafeTurnSpec == TurnInit /\ [][SafeTurnNext]_vars

(***************************************************************************)
(* The safety filter: calls of validateInput and validateOutput, one       *)
(* after the other, on texts of at most MaxFragments fragments.            *)
(***************************************************************************)
InputFragments ==
    {Plain, Space, Angle, SSN, Ignore, Role, Template, Hate, Kill, Story, UrlEnc,
     Base64, Filler(MAX_INPUT_LENGTH)}

OutputFragments ==
    {Plain, Hate, SSN, OpenAI, Gpt4, GptDash, Claude, ApiKey, Localhost, Internal,
     ErrorWord}

RECURSIVE Texts(_, _)
Texts(fragments, n) ==
    IF n = 0 THEN {<<>>}
    ELSE Texts(fragments, n - 1)
           \cup { Append(x, f) : x \in Texts(fragments, n - 1), f \in fragments }

Inputs == Texts(InputFragments, MaxFragments)

Outputs == Texts(OutputFragments, MaxFragments)

FilterInit ==
    InitFullGateway /\ InitStore /\ InitTurn /\ InitMore

FilterNext ==
    \/ call = NoCall /\ \E input \in Inputs : CallValidateInput(input)
    \/ ValidateInputReturns
    \/ call = NoCall /\ \E output \in Outputs : CallValidateOutput(output)
    \/ ValidateOutputReturns
    \/ FilterReturns

FilterSpec == FilterInit /\ [][FilterNext]_vars

(***************************************************************************)
(* Calls of the token validator: a content of a few pieces, and a context  *)
(* of one or two strings whose size puts the call on either side of the    *)
(* budget and of the room that is left for the content.                    *)
(***************************************************************************)
ContentPieces == {Run(1), Run(600), Run(27000), Stop, Query, Blank, Break}

Contents == Texts(ContentPieces, MaxPieces)

ContextSizes == {1, 27000, 27399, 27499, 27500, 28001}

Contexts ==
    {<<>>} \cup { <<<<Run(n)>>>> : n \in ContextSizes }
           \cup { <<<<Run(n)>>, <<Run(1)>>>> : n \in ContextSizes }

TokenInit ==
    InitFullGateway /\ InitStore /\ InitTurn /\ InitMore

TokenNext ==
    \/ call = NoCall /\ \E content \in Contents, context \in Contexts :
                            CallValidateAndChunk(content, context)
    \/ ValidateAndChunkReturns
    \/ TokenReturns

TokenSpec == TokenInit /\ [][TokenNext]_vars

(***************************************************************************)
(* The metrics collector at work: a few recordings one after the other,    *)
(* with alerts of the list being resolved, the clock moving, and the       *)
(* store failing and coming back.                                          *)
(***************************************************************************)
Recordings ==
    { <<d, u[1], u[2]>> : d \in {SLOW_RESPONSE, SLOW_RESPONSE + 1},
                          u \in {<<1, 0>>, <<TOKEN_LIMIT, COST_THRESHOLD + 1>>} }

\* a millisecond, an hour, the time to live of an alert
MetricSteps == {1, HOUR_MS, ALERT_TTL * 1000}

MetricInit ==
    InitFullGateway /\ InitStore /\ InitTurn /\ InitMore

MetricNext ==
    \/ \E r \in Recordings : RecordRequestCall(r[1], r[2], r[3])
    \/ RecordStoreMetric \/ RecordTokens \/ RecordCost \/ RecordRest
    \/ RecordGetTokens \/ RecordGetCost
    \/ AlertSetEx \/ AlertPush \/ AlertTrim
    \/ RecordReturns
    \/ \E i \in 1..Len(alertsActive) : ResolveAlertCall(alertsActive[i])
    \/ ResolveSetEx
    \/ ResolveReturns
    \/ \E d \in MetricSteps : MetricTick(d)
    \/ StoreGoesDown
    \/ StoreComesBack

MetricSpec == MetricInit /\ [][MetricNext]_vars

(***************************************************************************)
(* Recordings side by side within one hour, on a store that may fail and   *)
(* come back.                                                              *)
(***************************************************************************)
Outcomes ==
    { RequestMetrics(provider, size[1], size[2], size[3], success) :
        provider \in ProviderNames,
        size \in {<<3, 1, 7>>, <<5, 2, 9>>},
        success \in BOOLEAN }

AggregateNext ==
    \/ \E c \in Recorders, metrics \in Outcomes : RecorderCall(c, metrics)
    \/ \E c \in Recorders : RecorderCommand(c)
    \/ StoreGoesDown
    \/ StoreComesBack

AggregateSpec == MetricInit /\ [][AggregateNext]_vars

(***************************************************************************)
(* The steps of chat_node around the model call, on prompts and histories  *)
(* on either side of the token budget and on answers with and without a    *)
(* tool call.                                                              *)
(***************************************************************************)
SystemPrompts == {<<Run(600)>>, <<Run(27000), Run(1000)>>, <<Run(27000), Run(1001)>>}

MessageContents == {<<Run(1)>>, <<Run(600), Stop>>, <<Run(27000)>>}

Histories == Texts(MessageContents, MaxMessages) \ {<<>>}

Answers ==
    { AIMessage(content, tool, argument) :
        content \in {<<>>, <<Plain>>, <<Hate>>, <<SSN>>, <<OpenAI>>},
        tool \in {NoTool}, argument \in {<<>>} }
    \cup
    { AIMessage(content, tool, argument) :
        content \in {<<>>, <<Plain>>},
        tool \in {"WriteReport", "WriteResearchQuestion"},
        argument \in {<<Plain>>, <<Hate>>} }

ChatStepNext ==
    \/ \E systemPrompt \in SystemPrompts, stateMessages \in Histories :
          CallAssembleMessages(systemPrompt, stateMessages)
    \/ \E aiMessage \in Answers : CallResultOf(aiMessage)
    \/ ChatStepReturns

ChatStepSpec == TurnInit /\ [][ChatStepNext]_vars

\* new LLMGateway(): the constructor runs initializeProviders
InitGateway ==
    /\ \E env \in SUBSET EnvKeys : providers = initializeProviders(env)
    /\ healthStatus = [k \in ConfiguredKeys |-> TRUE]
    /\ lastHealthCheck = [k \in ConfiguredKeys |-> 0]
    /\ now = 1
    /\ ticks = 0
    /\ inv = [i \in Inv |-> IdleInvocation]
    /\ failedAt = [k \in ConfiguredKeys |-> 0]
    /\ okSinceFail = [k \in ConfiguredKeys |-> FALSE]
    /\ failover = [k \in ConfiguredKeys |-> FALSE]
    /\ started = 0

Init == InitGateway /\ InitStore /\ InitTurn /\ InitMore

Next ==
    \/ \E i \in Inv : StartInvocation(i)
    \/ \E i \in Inv : ProviderReturns(i)
    \/ \E i \in Inv : ProviderThrows(i)
    \/ \E i \in Inv : Complete(i)
    \/ \E d \in TickSteps : Tick(d)

Spec == Init /\ [][Next]_vars

(***************************************************************************)
(* The router on a gateway at work: selections between the steps of        *)
(* generateResponse invocations, one at a time, that mark providers        *)
(* unhealthy and healthy.                                                  *)
(***************************************************************************)
Mentions == {{}, {"search"}, {"write"}, {"analyze"}, {"summary"}, {"search", "write"}}

\* a short input without context and without complexity patterns, and a
\* long one with a long context and every pattern
InputShapes == {<<1, 0, 0>>, <<3, 2, 4>>}

RouterNext ==
    \/ StartInvocation(1)
    \/ ProviderReturns(1)
    \/ ProviderThrows(1)
    \/ Complete(1)
    \/ \E d \in TickSteps : Tick(d)
    \/ \E m \in Mentions, s \in InputShapes : SelectModelCall(m, s[1], s[2], s[3])
    \/ SelectModelReturns

RouterSpec == Init /\ [][RouterNext]_vars

(***************************************************************************)
(* Upstream calls that never settle.  callProvider awaits                  *)
(* provider.instance.invoke(messages) and nothing else: no timer races the *)
(* call, so a call the provider never answers has no continuation.         *)
(***************************************************************************)
ProviderNeverAnswers(i) ==
    /\ inv[i].pc = "calling"
    /\ inv' = [inv EXCEPT ![i].pc = "hung"]
    /\ UNCHANGED <<providers, healthStatus, lastHealthCheck, now, ticks, gwHist>>
    /\ UNCHANGED <<ckVars, turnVars, moreVars>>

NextUpstream ==
    \/ Next
    \/ \E i \in Inv : ProviderNeverAnswers(i)

\* The event loop runs the continuation of every settled call, and every
\* pending call is eventually either answered, rejected or abandoned by the
\* provider.
FairSpec ==
    /\ Init
    /\ [][NextUpstream]_vars
    /\ \A i \in Inv :
         WF_vars(ProviderReturns(i) \/ ProviderThrows(i) \/ ProviderNeverAnswers(i))

(***************************************************************************)
(* Properties of LLMGateway.generateResponse                               *)
(***************************************************************************)
Attempted(rec) == { rec.attempts[k].key : k \in 1..Len(rec.attempts) }

Failed(rec) ==
    { rec.attempts[k].key : k \in { n \in 1..Len(rec.attempts) : rec.attempts[n].res = "threw" } }

\* the step starts invocation i
Starts(i) == inv[i].pc = "idle" /\ inv'[i].pc # "idle"

\* the step settles the pending call of invocation i to provider key with res
Settles(i, key, res) ==
    /\ inv[i].pc = "calling"
    /\ CurrentKey(inv[i]) = key
    /\ Len(inv'[i].attempts) >= Len(inv[i].attempts)
    /\ inv'[i].attempts[Len(inv[i].attempts)].res = res

Threw(key) == \E i \in Inv : Settles(i, key, "threw")

Succeeded(key) == \E i \in Inv : Settles(i, key, "ok")

\* marked unhealthy and the cooldown since the last failure has not elapsed
Cooling(key) == ~healthStatus[key] /\ FailedRecently(key, now)

\* The attempts of an invocation are the first providers of the list it got
\* at its start, one after the other, each after the previous one threw, in
\* strictly ascending priority rank, none twice.
SequentialAttempts(rec) ==
    /\ Len(rec.attempts) = rec.idx
    /\ Len(rec.attempts) <= Len(rec.sortedProviders)
    /\ \A k \in 1..Len(rec.attempts) : rec.attempts[k].key = rec.sortedProviders[k]
    /\ \A k \in 1..(Len(rec.attempts) - 1) :
         /\ rec.attempts[k].res = "threw"
         /\ PriorityOf(rec.attempts[k].key) < PriorityOf(rec.attempts[k + 1].key)
    /\ \A k1, k2 \in 1..Len(rec.attempts) :
         rec.attempts[k1].key = rec.attempts[k2].key => k1 = k2
    /\ rec.pc \in {"calling", "hung"} <=>
         (rec.attempts # <<>> /\ rec.attempts[Len(rec.attempts)].res = "pending")

C1_State == \A i \in Inv : SequentialAttempts(inv[i])

C1_Step ==
    \A i \in Inv :
      /\ Starts(i) =>
           \A key \in ConfiguredKeys : Cooling(key) => key \notin Range(inv'[i].sortedProviders)
      /\ (inv[i].pc # "idle" /\ inv'[i].pc # "idle") =>
           inv'[i].sortedProviders = inv[i].sortedProviders

\* C1: within one generateResponse invocation the providers are attempted one
\* at a time in strictly ascending priority rank, attempt k+1 only after
\* attempt k has thrown, each provider at most once, and a provider that is
\* marked unhealthy with its cooldown not elapsed when the invocation starts
\* is never attempted by it.
C1_SequentialAscendingSkipsUnhealthy ==
    [][C1_State /\ C1_State' /\ C1_Step]_vars

\* an invocation has failed over to a second provider while a configured
\* provider that it skipped is still marked unhealthy inside its cooldown
C1_Witness ==
    \E i \in Inv :
      /\ Len(inv[i].attempts) >= 2
      /\ \E key \in ConfiguredKeys \ Range(inv[i].sortedProviders) : Cooling(key)

\* the invocation returns the answer of the provider that succeeded, after
\* every provider attempted before it threw
ReturnsLastAttempt(rec) ==
    rec.outcome = "response" =>
      LET n == Len(rec.attempts)
      IN /\ n >= 1
         /\ rec.attempts[n].res = "ok"
         /\ rec.response = ResponseOf(rec.attempts[n].key)
         /\ rec.response.provider = rec.attempts[n].key[1]
         /\ rec.response.model = rec.attempts[n].key[2]
         /\ \A k \in 1..(n - 1) : rec.attempts[k].res = "threw"

C2_Returns ==
    /\ \A i \in Inv : ReturnsLastAttempt(inv[i]) /\ ReturnsLastAttempt(inv'[i])
    /\ \A key \in ConfiguredKeys : Threw(key) => ~healthStatus'[key]

\* an invocation started more than the cooldown after A's last failure has A
\* in its list, hence attempts A before any provider of lower priority
C2_AfterCooldown ==
    \A i \in Inv : Starts(i) =>
      \A key \in ConfiguredKeys :
        FailedLongAgo(key, now) => key \in Range(inv'[i].sortedProviders)

C3_ListAtStart ==
    \A i \in Inv : Starts(i) =>
      Range(inv'[i].sortedProviders) = { key \in ConfiguredKeys : ~Cooling(key) }

ExhaustedList(rec) ==
    rec.outcome = "error" =>
      /\ Len(rec.attempts) = Len(rec.sortedProviders)
      /\ \A k \in 1..Len(rec.sortedProviders) :
           /\ rec.attempts[k].key = rec.sortedProviders[k]
           /\ rec.attempts[k].res = "threw"

\* C3 as stated: an invocation that raises 'All LLM providers failed' has
\* attempted every configured provider, and each of them failed in it.
C3_Original ==
    \A i \in Inv : inv[i].outcome = "error" => Failed(inv[i]) = ConfiguredKeys

\* C3 (amended): generateResponse raises 'All LLM providers failed' only when
\* every provider that was available at the start of the invocation (healthy,
\* or unhealthy with the cooldown elapsed) has been tried and has failed in
\* it; providers inside their cooldown are skipped, not attempted.
C3_ExhaustsAvailable ==
    [][ /\ C3_ListAtStart
        /\ \A i \in Inv : ExhaustedList(inv[i]) /\ ExhaustedList(inv'[i])
        /\ \A i \in Inv : (inv[i].pc # "idle" /\ inv'[i].pc # "idle") =>
             inv'[i].sortedProviders = inv[i].sortedProviders ]_vars

\* an invocation raised the error although a configured provider was skipped
C3_Witness ==
    \E i \in Inv :
      /\ inv[i].outcome = "error"
      /\ inv[i].attempts # <<>>
      /\ Failed(inv[i]) # ConfiguredKeys

\* C4: if every configured provider fails within one invocation, the
\* invocation raises the error and hands back no response object.
C4_AllFailNoResponse ==
    \A i \in Inv :
      /\ (inv[i].pc = "done" /\ ConfiguredKeys \subseteq Failed(inv[i])) =>
            (inv[i].outcome = "error" /\ inv[i].response = NoResponse)
      /\ inv[i].outcome = "error" => inv[i].response = NoResponse

\* all of at least two configured providers failed in one invocation
C4_Witness ==
    \E i \in Inv :
      /\ inv[i].pc = "done"
      /\ Cardinality(ConfiguredKeys) >= 2
      /\ Failed(inv[i]) = ConfiguredKeys
      /\ inv[i].outcome = "error"

C6_EveryInvocationCompletes ==
    \A i \in Inv : (inv[i].pc = "calling") ~> (inv[i].pc = "done")

(***************************************************************************)
(* Properties of a turn                                                    *)
(***************************************************************************)
TurnEnded == turn.pc = "done"

TurnFailed == turn.error # "none"

\* C7: a turn never ends in a raw exception: a turn whose processing failed
\* and that did not return a recovered state ends with the apology message.
C7_NeverRawException ==
    TurnEnded =>
        /\ turn.outcome # "exception"
        /\ TurnFailed /\ turn.outcome # "recovered" => turn.outcome = "apology"

\* C8: a turn with a thread identifier whose processing failed while the
\* reachable store held a checkpoint of that thread ends with the recovered
\* state.
C8_RecoversFromCheckpoint ==
    (TurnEnded /\ TurnFailed /\ turn.threadId \in Threads /\ turn.recoverable)
        => turn.outcome = "recovered"

\* the checkpoints of the thread of the turn that were taken during the turn
TakenInTurn ==
    { k \in keys(redis, pattern(turn.threadId)) : redis[k].value.timestamp >= turn.startedAt }

\* C9: once a turn with a thread identifier is past its checkpoint step (and
\* so before any upstream call of the turn), a checkpoint of that thread
\* taken in this turn is in the store.
C9_CheckpointBeforeUpstream ==
    (turn.threadId # NoThread /\ turn.pc \notin {"idle", "checkpoint"} /\ redisUp)
        => TakenInTurn # {}

(***************************************************************************)
(* Properties of checkpoint retention                                      *)
(***************************************************************************)
ThreadKeys(threadId) == keys(redis, pattern(threadId))

Saving(threadId) == \E s \in Savers : save[s].pc # "idle" /\ save[s].threadId = threadId

Quiescent(threadId) == ~Saving(threadId) /\ ~faulty[threadId]

C10_Bounded ==
    \A t \in Threads : Quiescent(t) => Cardinality(ThreadKeys(t)) <= MAX_CHECKPOINTS

\* a checkpoint that leaves the store is older than all that stay
C10_OldestFirst ==
    \A t \in Threads :
        LET before == ThreadKeys(t)
            after  == ThreadKeys(t)'
        IN \A k \in before \ after : \A j \in after : timestampOf(k) < timestampOf(j)

\* a cleanup that removes a checkpoint leaves MAX_CHECKPOINTS or more
C10_CleanupKeepsMax ==
    \A s \in Savers, t \in Threads :
        (save[s].pc = "del" /\ save[s].threadId = t /\ save'[s].pc = "idle"
            /\ ThreadKeys(t)' # ThreadKeys(t))
        => Cardinality(ThreadKeys(t)') >= MAX_CHECKPOINTS

ReadsCheckpoint == recover.pc = "get" /\ recover'.pc = "lpush"

\* the step in which the activation returns
RecoverEnds == recover.pc \notin {"idle", "done"} /\ recover'.pc = "done"

\* the call returns at once
RecoverEndsAtCall == recover.pc = "idle" /\ recover'.pc = "done"

\* the newest checkpoint of the thread in the store
MostRecentKey(threadId) ==
    CHOOSE k \in ThreadKeys(threadId) :
        \A j \in ThreadKeys(threadId) : timestampOf(j) <= timestampOf(k)

\* the message history of a snapshot
HistoryOf(state) == IF "messages" \in DOMAIN state THEN state.messages ELSE <<>>

\* C11 as stated: recovery reads the most recent checkpoint written for the
\* thread, returns its state with the whole message history followed by one
\* note on the failure, and returns null only for a thread without
\* checkpoint.
C11_Original ==
    [][/\ ReadsCheckpoint =>
            /\ recover.key = MostRecentKey(recover.threadId)
            /\ recover'.checkpoint = <<redis[recover.key].value>>
       /\ (RecoverEnds \/ RecoverEndsAtCall) =>
            IF recover'.returned = <<>>
            THEN ThreadKeys(recover'.threadId) = {}
            ELSE LET cp  == recover.checkpoint[1]
                     got == recover'.returned[1]
                 IN /\ got.messages = Append(HistoryOf(cp.state), recoveryNote(recover.error))
                    /\ \A f \in DOMAIN cp.state \ {"messages"} : got[f] = cp.state[f]
      ]_vars

\* C11: recovery reads the checkpoint that the latest pointer of the thread
\* names; it returns the state of that checkpoint, whose messages are the
\* last CONTEXT_WINDOW messages of the checkpoint's history followed by
\* exactly one system note that carries the message of the triggering
\* error; it returns null when the store does not answer, when the thread
\* has no latest pointer, and when the checkpoint the pointer names is not
\* in the store, so always when the thread has no checkpoint.
C11_RecoversLatestPointer ==
    [][/\ RecoverEndsAtCall =>
            /\ recover'.returned = <<>>
            /\ ~redisUp \/ latestKey(recover'.threadId) \notin DOMAIN redis
       /\ (recover.pc = "idle" /\ recover'.pc = "get") =>
            /\ redisUp
            /\ recover'.key = redis[latestKey(recover'.threadId)].value
       /\ ReadsCheckpoint =>
            /\ redisUp
            /\ recover.key \in ThreadKeys(recover.threadId)
            /\ recover'.checkpoint = <<redis[recover.key].value>>
       /\ (recover.pc = "get" /\ recover'.pc = "done") =>
            /\ recover'.returned = <<>>
            /\ ~redisUp \/ recover.key \notin DOMAIN redis
       /\ (recover.pc \in {"lpush", "ltrim"} /\ recover'.pc = "done") =>
            /\ recover'.returned # <<>>
            /\ LET cp   == recover.checkpoint[1]
                    got  == recover'.returned[1]
                    hist == HistoryOf(cp.state)
                    n    == IF Len(hist) < CONTEXT_WINDOW THEN Len(hist) ELSE CONTEXT_WINDOW
               IN /\ Len(got.messages) = n + 1
                  /\ \A i \in 1..n : got.messages[i] = hist[Len(hist) - n + i]
                  /\ got.messages[n + 1] = recoveryNote(recover.error)
                  /\ \A f \in DOMAIN cp.state \ {"messages"} : got[f] = cp.state[f]
       /\ (recover.pc = "idle" /\ recover'.pc # "idle" /\ ThreadKeys(recover'.threadId) = {}) =>
            recover'.pc = "done" \/ recover'.key \notin DOMAIN redis
      ]_vars

\* a recovery has returned the state of a checkpoint whose history is longer
\* than the context window, while a newer checkpoint of the thread is in
\* the store
C11_Witness ==
    /\ recover.pc = "done"
    /\ recover.returned # <<>>
    /\ Len(HistoryOf(recover.checkpoint[1].state)) > CONTEXT_WINDOW
    /\ Len(recover.returned[1].messages) = CONTEXT_WINDOW + 1
    /\ ThreadKeys(recover.threadId) # {}
    /\ recover.key # MostRecentKey(recover.threadId)

(***************************************************************************)
(* C12: checkpoint writes are best-effort.                                 *)
(***************************************************************************)
\* the step in which the turn performs its checkpoint step
TakesCheckpointStep == turn.pc = "checkpoint" /\ turn'.pc # "checkpoint"

\* C12: a store command of saveCheckpoint that fails ends the write without
\* an exception (the activation is over, nothing of it is left behind), and
\* a turn with a thread identifier that performs its checkpoint step while
\* the store does not answer goes on to its next step without an error.
C12_BestEffortCheckpoint ==
    [][/\ \A s \in Savers :
            (save[s].pc # "idle" /\ save'[s] # save[s] /\ ~redisUp) => save'[s] = IdleSave
       /\ (TakesCheckpointStep /\ turn.threadId # NoThread /\ ~redisUp) =>
            /\ turn'.error = "none"
            /\ turn'.pc \notin {"catch", "done"}
      ]_vars

(***************************************************************************)
(* C13: no entry is served past the time to live of its category.          *)
(***************************************************************************)
\* the step in which a read is called and the store answers its GET
ReadAnswered == cacheOp.pc = "idle" /\ cacheOp'.pc # "idle" /\ redisUp

\* the age that the entry under the key of the read has in the store
AgeInStore(key) == now - redis[key].value.timestamp

\* the step in which a read that found an entry too old returns
StaleReadReturns == cacheOp.pc = "del" /\ cacheOp'.pc = "done"

\* no read returns an entry whose age has reached the time to live of its
\* category, and a read that finds such an entry goes on to delete it
NeverServedStale ==
    ReadAnswered =>
        /\ cacheOp'.result # <<>> =>
              /\ cacheOp'.key \in DOMAIN redis
              /\ cacheOp'.result = <<redis[cacheOp'.key].value.response>>
              /\ AgeInStore(cacheOp'.key) < freshFor(cacheOp'.type)
        /\ (cacheOp'.key \in DOMAIN redis
                /\ AgeInStore(cacheOp'.key) >= freshFor(cacheOp'.type)) =>
              /\ cacheOp'.result = <<>>
              /\ cacheOp'.pc = "del"

\* C13 as stated: in every category, a read of an entry whose age has
\* reached the time to live of the category is a miss and leaves the store
\* without the entry, and no read returns an entry that old.
C13_Original ==
    [][/\ NeverServedStale
       /\ StaleReadReturns =>
            /\ cacheOp'.result = <<>>
            /\ cacheOp.key \notin DOMAIN redis'
      ]_vars

\* C13: in every category, no read returns an entry whose age has reached
\* the time to live of the category; a read that finds such an entry is a
\* miss, and it removes the entry when its DEL reaches the store, while the
\* entry stays (until the store expires it) when the DEL fails.
C13_StaleIsMissAndEvicted ==
    [][/\ NeverServedStale
       /\ StaleReadReturns =>
            /\ cacheOp'.result = <<>>
            /\ redisUp => cacheOp.key \notin DOMAIN redis'
            /\ ~redisUp => redis' = redis
      ]_vars

\* a read has found an entry exactly as old as the time to live of its
\* category, has reported a miss and has removed the entry, which the store
\* would still hold
C13_Witness ==
    /\ cacheOp.pc = "done"
    /\ cacheOp.result = <<>>
    /\ cacheOp.key \in DOMAIN lastSet
    /\ now - lastSet[cacheOp.key].value.timestamp = freshFor(cacheOp.type)
    /\ lastSet[cacheOp.key].expireAt > now
    /\ redisUp /\ outages = 0
    /\ cacheOp.key \notin DOMAIN redis

(***************************************************************************)
(* C14: which requests share a cache key.                                  *)
(***************************************************************************)
IsBlank(ch) == ch = " "

SameLetter(c, d) == c = d \/ {c, d} = {"a", "A"}

\* the text between the first and the last character that is not blank
Core(chars) ==
    LET solid == { i \in 1..Len(chars) : ~IsBlank(chars[i]) }
    IN IF solid = {} THEN <<>>
       ELSE LET first == CHOOSE i \in solid : \A j \in solid : i <= j
                last  == CHOOSE i \in solid : \A j \in solid : j <= i
            IN SubSeq(chars, first, last)

\* equal but for letter case
SameIgnoringCase(x, y) ==
    Len(x) = Len(y) /\ \A i \in 1..Len(x) : SameLetter(x[i], y[i])

\* equal but for letter case and for the blanks at both ends
SameUpToCaseAndEnds(x, y) == SameIgnoringCase(Core(x), Core(y))

\* the words of a text: its maximal runs of characters that are not blank
RECURSIVE Words(_)
Words(chars) ==
    IF chars = <<>> THEN <<>>
    ELSE IF IsBlank(Head(chars)) THEN Words(Tail(chars))
    ELSE LET stop == IF \E i \in 1..Len(chars) : IsBlank(chars[i])
                     THEN (CHOOSE i \in 1..Len(chars) :
                              IsBlank(chars[i]) /\ \A j \in 1..(i - 1) : ~IsBlank(chars[j])) - 1
                     ELSE Len(chars)
         IN <<SubSeq(chars, 1, stop)>> \o Words(SubSeq(chars, stop + 1, Len(chars)))

\* equal but for letter case and for the amount of white space anywhere
SameUpToCaseAndWhitespace(x, y) ==
    /\ Len(Words(x)) = Len(Words(y))
    /\ \A i \in 1..Len(Words(x)) : SameIgnoringCase(Words(x)[i], Words(y)[i])

KeysGenerated == call.fn = "generateCacheKey" /\ call.result # <<>>

\* the serialized content of the two requests
Serialized(n) == contentOf(call.args[1], call.args[n + 1]).chars

\* C14 as stated: two requests whose serialized content differs only in
\* letter case or in white space have the same key, all others different
\* keys.
C14_Original ==
    KeysGenerated =>
        (call.result[1] = call.result[2]
            <=> SameUpToCaseAndWhitespace(Serialized(1), Serialized(2)))

\* C14: two requests of a category have the same key exactly when their
\* serialized content is equal but for letter case and for the white space
\* before its first and after its last other character (distinct texts
\* being taken to have distinct digests).
C14_SameKeyUpToCaseAndEnds ==
    KeysGenerated =>
        (call.result[1] = call.result[2]
            <=> SameUpToCaseAndEnds(Serialized(1), Serialized(2)))

\* two different requests with one key, and the key is a key
C14_Witness ==
    /\ KeysGenerated
    /\ call.args[2] # call.args[3]
    /\ Len(call.args[2]) = MaxContentLen
    /\ call.result[1] = call.result[2]
    /\ call.result[1] # TypeError

(***************************************************************************)
(* C15: the cache round trip.                                              *)
(***************************************************************************)
\* the step in which a read is called
ReadCalled == cacheOp.pc = "idle" /\ cacheOp'.pc # "idle"

\* the text that the digest of a key stands for
TextOf(key) == key[3][2]

\* the time to live of the category has not elapsed since the entry that
\* the last write under the key carries was stamped
WithinTTL(key) == now - lastSet[key].value.timestamp < freshFor(key[2])

\* the writes that answer a read of the category for a request: those whose
\* text equals the request but for letter case and white space
AnswersTo(type, content) ==
    { k \in DOMAIN lastSet :
        k[2] = type /\ SameUpToCaseAndWhitespace(TextOf(k), content.chars) }

TakesCacheStep == turn.pc = "cache" /\ turn'.pc # "cache"

\* C16: the cache lookup of a turn never makes the turn fail: whatever the
\* store does, the turn leaves the step without an error.
C16_CacheNeverFailsTurn ==
    [][TakesCacheStep => (turn'.error = "none" /\ turn'.pc # "catch")]_vars

\* the store is reachable and holds an entry for the request of the turn
\* that is younger than the time to live of its category
RequestCached ==
    /\ redisUp
    /\ RequestKey \in DOMAIN redis
    /\ IsFresh(redis[RequestKey].value, "llm", now)

\* C17: a turn that performs its cache lookup while the cache holds an
\* unexpired entry for its request ends with the cached result, without an
\* error and without an upstream call.
C17_CachedTurnSkipsUpstream ==
    [][(TakesCacheStep /\ RequestCached) =>
            /\ turn'.error = "none"
            /\ turn'.outcome = "cached"
            /\ UNCHANGED <<inv, started>>
      ]_vars

\* the step of the safety check for an input that the filter rejects
RejectsInput == turn.pc = "safety" /\ ~turn.inputValid /\ turn' # turn

\* C18: the safety check of an input that the filter rejects ends the turn
\* with the refusal message and without an error; the step starts no
\* provider call and writes nothing to the cache or the store, and the turn
\* that has ended takes no further step but its return.
C18_RejectedNeverReachesProvider ==
    [][/\ RejectsInput =>
            /\ turn'.pc = "done"
            /\ turn'.outcome = "refusal"
            /\ turn'.error = "none"
            /\ UNCHANGED <<inv, started, redis, cacheSet, cacheOp, lastSet>>
       /\ (turn.pc = "done" /\ turn.outcome = "refusal" /\ turn' # turn) =>
            /\ turn' = IdleTurn
            /\ UNCHANGED <<inv, started, redis, cacheSet, cacheOp, lastSet>>
      ]_vars

\* a turn whose input the filter rejected has ended with the refusal, with
\* the store reachable and holding an entry for the request
C18_Witness ==
    /\ turn.pc = "done"
    /\ turn.fn = "chat_node"
    /\ ~turn.inputValid
    /\ turn.outcome = "refusal"
    /\ RequestCached
    /\ started = 0

(***************************************************************************)
(* C19: the blocking policy of validateInput.                              *)
(***************************************************************************)
InputValidated == call.fn = "validateInput" /\ call.result # <<>>

\* the issues contain one of high severity, or a prompt injection of
\* medium severity
HasBlockingIssue(issues) ==
    \E i \in 1..Len(issues) :
        \/ issues[i].severity = "high"
        \/ issues[i] = Issue("prompt_injection", "medium")

\* the fragments of a text at the positions kept, in their order
RECURSIVE Kept(_, _, _)
Kept(text, keep, i) ==
    IF i > Len(text) THEN <<>>
    ELSE (IF i \in keep THEN <<text[i]>> ELSE <<>>) \o Kept(text, keep, i + 1)

\* every personal datum replaced by the redaction mark
WithPIIRedacted(text) == [i \in 1..Len(text) |-> IF text[i] = SSN THEN Redacted ELSE text[i]]

\* no blank at either end and one blank where there was a run of them: a
\* blank stays if it is the first of its run and if text that is not blank
\* comes before and after it
WithWhitespaceNormalized(text) ==
    Kept(text,
         { i \in 1..Len(text) :
             \/ text[i] # Space
             \/ /\ i > 1
                /\ text[i - 1] # Space
                /\ \E j \in (i + 1)..Len(text) : text[j] # Space },
         1)

\* without the characters < > { }
WithoutAngleAndBrace(text) ==
    LET kept == Kept(text, { i \in 1..Len(text) : text[i] # Angle }, 1)
    IN [i \in 1..Len(kept) |-> IF kept[i] = Template THEN TemplateInner ELSE kept[i]]

Cleaned(text) == WithoutAngleAndBrace(WithWhitespaceNormalized(WithPIIRedacted(text)))

\* C19 as stated: blocked holds exactly when the issues contain a blocking
\* one; a blocked input has no sanitized text and is not valid; the
\* sanitized text of any other input is the input with PII redacted, white
\* space normalized and angle and brace characters stripped.
C19_Original ==
    InputValidated =>
        LET r == call.result[1]
        IN /\ r.blocked <=> HasBlockingIssue(r.issues)
           /\ r.blocked => (r.sanitized = <<>> /\ ~r.isValid)
           /\ ~r.blocked => r.sanitized = Cleaned(call.args[1])

\* C19: blocked holds exactly when the issues contain one of high severity
\* or a prompt injection of medium severity; a blocked input has no
\* sanitized text and is not valid; the sanitized text of any other input
\* is the first MAX_INPUT_LENGTH characters of the input with PII redacted,
\* white space normalized and angle and brace characters stripped, in this
\* order.
C19_BlockingPolicy ==
    InputValidated =>
        LET r == call.result[1]
        IN /\ r.blocked <=> HasBlockingIssue(r.issues)
           /\ r.blocked => (r.sanitized = <<>> /\ ~r.isValid)
           /\ ~r.blocked =>
                 r.sanitized = Cleaned(substring(call.args[1], MAX_INPUT_LENGTH))

\* an input longer than the limit with a personal datum and an angle
\* character has been sanitized, not blocked
C19_Witness ==
    /\ InputValidated
    /\ ~call.result[1].blocked
    /\ ~call.result[1].isValid
    /\ length(call.args[1]) > MAX_INPUT_LENGTH
    /\ Has(call.args[1], Angle)
    /\ Has(call.result[1].sanitized, Redacted)

(***************************************************************************)
(* C20: what validateOutput lets through.                                  *)
(***************************************************************************)
OutputValidated == call.fn = "validateOutput" /\ call.result # <<>>

\* provider names, key-like tokens, internal addresses
ProviderIdentity == {OpenAI, Gpt4, Claude, ApiKey, Localhost}

\* C20: the text that validateOutput returns holds no provider name, no
\* key-like token and no internal address, whatever else the output holds.
C20_NoProviderIdentity ==
    OutputValidated =>
        \A i \in 1..Len(call.result[1]) : call.result[1][i] \notin ProviderIdentity

(***************************************************************************)
(* TokenValidator claims                                                   *)
(***************************************************************************)
TokenCallReturned == call.fn = "validateAndChunk" /\ call.result # <<>>

\* the estimate for the content and the context together
CombinedTokens == estimateTokens(fullTextOf(call.args[1], call.args[2]))

\* the estimate for the context strings alone
ContextTokens == estimateTokens(join(call.args[2], <<Newline>>))

\* C21: a call whose content and context together are estimated at no more
\* than the budget of 28,000 tokens returns isValid = true and exactly one
\* chunk, which is the content as it was passed.
C21_UnderBudgetOneChunk ==
    TokenCallReturned /\ CombinedTokens <= MAX_TOKENS
        => /\ call.result[1].threw = ""
           /\ call.result[1].isValid
           /\ call.result[1].chunks = <<call.args[1]>>

\* a call exactly at the budget has returned its content as the one chunk
C21_Witness ==
    /\ TokenCallReturned
    /\ CombinedTokens = MAX_TOKENS
    /\ call.args[1] # <<>>
    /\ call.result[1].chunks = <<call.args[1]>>

Occurs(part, text) ==
    \E i \in 0..(Len(text) - Len(part)) : SubSeq(text, i + 1, i + Len(part)) = part

\* the paragraph is in the chunks: whole, or sentence by sentence
ParagraphCarried(paragraph, chunks) ==
    \/ \E k \in 1..Len(chunks) : Occurs(trimmed(paragraph), chunks[k])
    \/ /\ sentencesOf(paragraph) # <<>>
       /\ \A j \in 1..Len(sentencesOf(paragraph)) :
             \E k \in 1..Len(chunks) : Occurs(trimmed(sentencesOf(paragraph)[j]), chunks[k])

\* the words of a text, in order
WordsOf(text) == SelectSeq(text, LAMBDA p : ~IsWhitespace(p) /\ ~IsTerminator(p))

RECURSIVE Concat(_)
Concat(texts) == IF texts = <<>> THEN <<>> ELSE Head(texts) \o Concat(Tail(texts))

\* C22: the chunks returned for an over-budget content hold all of the
\* content in its order: every paragraph that is not blank is in the chunks,
\* whole or sentence by sentence, and the words of the chunks are the words
\* of the content in the same order.
C22_NoContentLost ==
    TokenCallReturned /\ call.result[1].threw = "" /\ ~call.result[1].isValid
        => /\ \A i \in 1..Len(paragraphsOf(call.args[1])) :
                 trimmed(paragraphsOf(call.args[1])[i]) # <<>>
                     => ParagraphCarried(paragraphsOf(call.args[1])[i], call.result[1].chunks)
           /\ WordsOf(Concat(call.result[1].chunks)) = WordsOf(call.args[1])

\* the context size from which intelligentChunk has no room left
ContextLimit == MAX_TOKENS - OVERLAP_TOKENS

\* C23 as stated: the call fails with the context-too-large error when the
\* context alone exceeds the budget, and an over-budget call whose context
\* alone fits the budget is chunked.
C23_Original ==
    TokenCallReturned
        => /\ ContextTokens > MAX_TOKENS
                => call.result[1].threw = ContextTooLarge /\ call.result[1].chunks = <<>>
           /\ ContextTokens <= MAX_TOKENS /\ CombinedTokens > MAX_TOKENS
                => call.result[1].threw = "" /\ call.result[1].chunks # <<>>

\* C23: an over-budget call fails with the context-too-large error, no chunk
\* produced, exactly when the context alone is estimated at 27,500 tokens or
\* more (the budget less the 500 tokens kept for overlap); with a smaller
\* context it is chunked.  A call within the budget never fails.
C23_ContextTooLarge ==
    TokenCallReturned
        => /\ call.result[1].threw = ContextTooLarge
                <=> CombinedTokens > MAX_TOKENS /\ ContextTokens >= ContextLimit
           /\ call.result[1].threw = ContextTooLarge => call.result[1].chunks = <<>>
           /\ CombinedTokens > MAX_TOKENS /\ ContextTokens < ContextLimit
                => call.result[1].threw = "" /\ call.result[1].chunks # <<>>

\* a call whose context alone fits the budget has failed
C23_Witness ==
    /\ TokenCallReturned
    /\ ContextTokens <= MAX_TOKENS
    /\ call.args[1] # <<>>
    /\ call.result[1].threw = ContextTooLarge

(***************************************************************************)
(* MetricsCollector claims                                                 *)
(***************************************************************************)
SlowOf(alerts) == SelectSeq(alerts, LAMBDA a : a.type = "SLOW_RESPONSE")

Listed(alert) == \E i \in 1..Len(ActiveAlerts) : ActiveAlerts[i] = alert

\* the recording returns from a request that was over the threshold
SlowRecordingReturns ==
    /\ record.pc = "done"
    /\ record'.pc = "idle"
    /\ record.metrics.duration > SLOW_RESPONSE

SlowAlertStored ==
    /\ record.pc = "lTrim"
    /\ record'.pc \in {"setEx", "done"}
    /\ ~record'.caught
    /\ record.alerts[record.next].type = "SLOW_RESPONSE"

HourlyKinds == {"TOKEN_LIMIT", "COST_THRESHOLD"}

\* C25: whatever was recorded, getActiveAlerts returns at most one alert of
\* an hourly kind (TOKEN_LIMIT, COST_THRESHOLD) for one hour.
C25_OneHourlyAlertPerHour ==
    \A i, j \in 1..Len(ActiveAlerts) :
        /\ ActiveAlerts[i].type \in HourlyKinds
        /\ ActiveAlerts[i].type = ActiveAlerts[j].type
        /\ ActiveAlerts[i].id[2] = ActiveAlerts[j].id[2]
        => i = j

\* C26: getActiveAlerts never returns an alert whose resolved flag is set,
\* nor an alert with an id on which resolveAlert has succeeded, whatever was
\* recorded since.
C26_ResolvedStaysResolved ==
    \A i \in 1..Len(ActiveAlerts) :
        /\ ~ActiveAlerts[i].resolved
        /\ ActiveAlerts[i].id \notin resolvedIds

(***************************************************************************)
(* Properties of ModelRouter.selectModel                                   *)
(***************************************************************************)
\* selectModel has just run
SelectModelRan == call.fn = "none" /\ call'.fn = "selectModel"

Selection == call.result[1]

\* the configured providers that are healthy or whose cooldown is over
UsableKeys ==
    { k \in ConfiguredKeys :
        healthStatus[k] \/ (now - lastHealthCheck[k]) > HEALTH_CHECK_INTERVAL }

\* C27 as stated: selectModel returns null only when zero providers are
\* configured; with a provider configured, in any health state, it returns
\* a selection whose provider is one of the configured providers.
C27_Original ==
    call.fn = "selectModel"
        => /\ Selection.isNull <=> providers = <<>>
           /\ ~Selection.isNull => Selection.provider \in ConfiguredKeys

\* C27: selectModel returns null exactly when no configured provider is
\* healthy or past its cooldown (so always when zero are configured);
\* otherwise the provider selected is one of those, with the recommended
\* model when one of those has it, and the fallback options are up to two
\* others of those.
C27_NullIffNoneUsable ==
    [][SelectModelRan
         => /\ Selection'.isNull <=> UsableKeys = {}
            /\ providers = <<>> => Selection'.isNull
            /\ ~Selection'.isNull
                 => /\ Selection'.provider \in UsableKeys
                    /\ (\E k \in UsableKeys : k[2] = call'.args[1].recommendedModel)
                          => Selection'.provider[2] = call'.args[1].recommendedModel
                    /\ Range(Selection'.fallbackOptions)
                          \subseteq UsableKeys \ {Selection'.provider}
                    /\ Len(Selection'.fallbackOptions)
                          = (IF Cardinality(UsableKeys) > 2 THEN 2
                             ELSE Cardinality(UsableKeys) - 1)
                    /\ Cardinality(Range(Selection'.fallbackOptions))
                          = Len(Selection'.fallbackOptions)]_vars

\* selectModel has returned null on a gateway with a provider configured
C27_Witness ==
    /\ call.fn = "selectModel"
    /\ Selection.isNull
    /\ providers # <<>>

(***************************************************************************)
(* Properties of the upstream call of a turn                               *)
(***************************************************************************)
\* C28: a chat_node turn fails (its exception reaches the caller) only
\* after every configured provider has failed: a failure of one provider
\* is made good by the next and never surfaced.
C28_FailsOnlyAfterEveryProviderFailed ==
    /\ turn.fn = "chat_node"
    /\ turn.pc = "done"
    /\ turn.outcome = "exception"
    => \A k \in ConfiguredKeys : failedAt[k] # 0

(***************************************************************************)
(* Properties of concurrent generateResponse invocations                   *)
(***************************************************************************)
\* invocation i starts a call to a provider in this step
StartsCall(i) == Len(inv'[i].attempts) > Len(inv[i].attempts)

\* C29: no invocation starts a call to a provider that is at that moment
\* marked unhealthy with its cooldown not elapsed, whichever invocation
\* has marked it and whenever.
C29_NeverCallsUnhealthy ==
    [][\A i \in Inv : StartsCall(i) => ~Cooling(CurrentKey(inv'[i]))]_vars

(***************************************************************************)
(* Properties of overlapping saveCheckpoint calls                          *)
(***************************************************************************)
\* no saveCheckpoint call is under way
NoSaveUnderWay == \A s \in Savers : save[s].pc = "idle"

\* C30: when the saveCheckpoint calls of a thread are through, none of them
\* cut short by a failure of the store, recovery gets the checkpoint of the
\* thread with the greatest timestamp: the latest pointer names it.
C30_LatestIsMostRecent ==
    \A t \in Threads :
        /\ NoSaveUnderWay
        /\ ~faulty[t]
        /\ getLastCheckpoint(t) # <<>>
        => \A k \in keys(redis, pattern(t)) :
               timestampOf(k) <= getLastCheckpoint(t)[1].timestamp

(***************************************************************************)
(* Properties of the input safety step of a turn                           *)
(***************************************************************************)
\* the turn takes its safety step on the content of its last message
ChecksInput == turn.pc = "safety" /\ turn.input # <<>> /\ turn' # turn

\* C31: a turn refuses its input exactly when validateInput reports it
\* blocked; an input with non-blocking issues only is not refused and the
\* turn goes on to its cache lookup.
C31_RefusesExactlyBlocked ==
    [][ChecksInput
         => /\ turn'.outcome = "refusal"
                  <=> validateInput(turn.input, templateLastIndex).blocked
            /\ ~validateInput(turn.input, templateLastIndex).blocked
                  => turn'.pc = "cache"]_vars

(***************************************************************************)
(* Properties of the steps of chat_node around the model call              *)
(***************************************************************************)
\* the output validation hands the text back as it is
Accepted(text) == validateOutput(text) = text

C33_SentWithinBudget ==
    call.fn = "assembleMessages"
        => (tokensOf(<<call.args[1]>> \o call.args[2]) > MAX_TOKENS
              => tokensOf(call.result[1]) <= MAX_TOKENS)

(***************************************************************************)
(* The safety filter as a function of the text                             *)
(***************************************************************************)
\* C34: whatever calls were made on the filter before, validateInput and
\* validateOutput return for a text what they return for it on a filter
\* that has just been constructed.
C34_ResultDependsOnTextOnly ==
    /\ call.fn = "validateInput" /\ call.result # <<>>
          => call.result[1] = validateInput(call.args[1], 0)
    /\ call.fn = "validateOutput" /\ call.result # <<>>
          => call.result[1] = validateOutput(call.args[1])

(***************************************************************************)
(* The size of the chunks                                                  *)
(***************************************************************************)
\* C35: every chunk returned for an over-budget content is estimated at no
\* more tokens than the chunk capacity, the budget less the tokens of the
\* context less the 500 tokens kept for overlap.
C35_ChunksWithinCapacity ==
    TokenCallReturned /\ call.result[1].threw = "" /\ ~call.result[1].isValid
        => \A k \in 1..Len(call.result[1].chunks) :
              estimateTokens(call.result[1].chunks[k]) <= availableTokens(call.args[2])

(***************************************************************************)
(* The latest pointer and retention                                        *)
(***************************************************************************)
\* the checkpoint the latest pointer of the thread names
Designated(t) == redis[latestKey(t)].value

\* the store has not yet let the checkpoint written under the key run out
NotExpired(key) == timestampOf(key) + CHECKPOINT_TTL * 1000 > now

\* C36: the latest pointer of a thread, when present, names a checkpoint of
\* that thread, and as long as that checkpoint has not run out of its time
\* to live it is in the store: cleanup never deletes it.
C36_LatestDesignatesStored ==
    \A t \in Threads :
        latestKey(t) \in DOMAIN redis
            => /\ Designated(t)[1] = "checkpoint" /\ Designated(t)[2] = t
               /\ NotExpired(Designated(t)) => Designated(t) \in DOMAIN redis

(***************************************************************************)
(* The hourly bucket after recordings side by side                         *)
(***************************************************************************)
\* the recordRequest calls made so far, and those that have returned
Called == { c \in Recorders : recorders[c].pc # "idle" }

Completed == { c \in Recorders : recorders[c].pc = "done" }

Unsuccessful(calls) == { c \in calls : ~recorders[c].metrics.success }

NoRecordingUnderWay == Called = Completed

\* the bucket of the hour
Bucket == IF HourOf(now) \in DOMAIN hourly THEN hourly[HourOf(now)] ELSE NoBucket

\* a per-provider field summed over the providers
ProviderTotal(name) ==
    Bucket[providerField("openai", name)] + Bucket[providerField("anthropic", name)]

\* the bucket accounts for exactly the calls that have returned
BucketMatchesCalls ==
    /\ Bucket["total_requests"] = Cardinality(Completed)
    /\ Bucket["error_count"] = Cardinality(Unsuccessful(Completed))
    /\ ProviderTotal("requests") = Bucket["total_requests"]
    /\ ProviderTotal("tokens") = Bucket["total_tokens"]
    /\ ProviderTotal("cost") = Bucket["total_cost"]

\* C37 as stated: whenever the recordRequest calls made within the hour
\* have all returned, the bucket holds their number, the number of the
\* unsuccessful ones, and per-provider fields that sum to the totals; and
\* error_count never exceeds total_requests.
C37_Original ==
    /\ NoRecordingUnderWay => BucketMatchesCalls
    /\ Bucket["error_count"] <= Bucket["total_requests"]

\* C37: whenever the recordRequest calls made within the hour have all
\* returned and no store command of any of them has failed, the bucket
\* holds their number, the number of the unsuccessful ones, and
\* per-provider fields that sum to the totals.  A call with a failed store
\* command returns with only the increments before the failure applied: in
\* every state total_requests is at most the number of calls, error_count
\* at most the number of unsuccessful calls, the per-provider requests at
\* most total_requests, and error_count never exceeds total_requests.
C37_HourlyCounts ==
    /\ NoRecordingUnderWay /\ (\A c \in Completed : ~recorders[c].caught)
          => BucketMatchesCalls
    /\ Bucket["total_requests"] <= Cardinality(Called)
    /\ Bucket["error_count"] <= Cardinality(Unsuccessful(Called))
    /\ ProviderTotal("requests") <= Bucket["total_requests"]
    /\ Bucket["error_count"] <= Bucket["total_requests"]

\* two calls for different providers, one of them unsuccessful, have
\* returned without a failure of the store and are both in the bucket
C37_Witness ==
    /\ Cardinality(Completed) = 2
    /\ NoRecordingUnderWay
    /\ \A c \in Completed : ~recorders[c].caught
    /\ Cardinality(Unsuccessful(Completed)) = 1
    /\ \E c, d \in Completed : recorders[c].metrics.provider # recorders[d].metrics.provider
    /\ Bucket["total_requests"] = 2
    /\ Bucket["error_count"] = 1

(***************************************************************************)
(* What selectModel writes                                                 *)
(***************************************************************************)
\* C38: a call of selectModel leaves the health flag and the time of the
\* last failure of every provider as they were.
C38_SelectModelOnlyReads ==
    [][SelectModelRan => UNCHANGED <<healthStatus, lastHealthCheck>>]_vars

(***************************************************************************)
(* The age of the resources handed to the chat step                        *)
(***************************************************************************)
\* C39: the content getResource hands out for an URL is never older than
\* the six hours a fetched resource lives (a download pass going on
\* excepted, which is about to replace it).
C39_NeverServedPastTTL ==
    \A url \in Urls :
        getResource(url).kind = "page" /\ download.pc = "idle"
            => now - getResource(url).fetchedAt <= RESOURCE_FRESH_MS

(***************************************************************************)
(* Termination of FeatureFlags.initialize                                  *)
(***************************************************************************)
\* initializeModelServices is awaiting the initialize() it has called
InitializeCalled ==
    flags.entry = "initializeModelServices" /\ flags.pc \in {"initialize", "refreshCache"}

\* C40: the initialize() that initializeModelServices awaits comes to an
\* end, so that getModel goes on or fails.
C40_InitializeTerminates == InitializeCalled ~> ~InitializeCalled

====
